---- MODULE Spec2Model ----
(***************************************************************************)
(* Study session timer engine of StudySprint: TimerService                 *)
(* (backend/app/services/timer_service.py) over the StudySession,          *)
(* PageTime, PomodoroSession and ReadingSpeed rows of                      *)
(* backend/app/models/consolidated.py.                                     *)
(*                                                                         *)
(* Conventions                                                             *)
(*  - the clock `now` counts seconds; minutes are int(seconds / 60);       *)
(*  - DECIMAL(3,2) scores are integers in hundredths (1.0 is 100);         *)
(*  - a nullable timestamp that is NULL is NoTime;                         *)
(*  - a new row's columns start at the defaults its Column declares;       *)
(*  - a table is a sequence of rows, a row's id is its index;              *)
(*  - the store keeps every value written: the precision of a DECIMAL      *)
(*    column is not a limit.                                               *)
(***************************************************************************)
EXTENDS Integers, Sequences, FiniteSets, TLC

VARIABLES now, sessions, page_times, pomodoros, reading_speeds,
          pdfs, topics, user_stats, result, ops, pc, txn

vars == <<now, sessions, page_times, pomodoros, reading_speeds,
          pdfs, topics, user_stats, result, ops, pc, txn>>

db == <<sessions, page_times, pomodoros, reading_speeds, pdfs, topics, user_stats>>

(***************************************************************************)
(* Bounds of the model.                                                    *)
(***************************************************************************)
MaxOps == 4
TickSeconds == 90
MaxCount == 1
MaxDrawn == 6

(***************************************************************************)
(* Users, documents and topics known to the collaborators.                 *)
(***************************************************************************)
Users == {1, 2}
PdfOwner == <<1, 2>>
TopicOwner == <<1, 2>>
PdfIds == DOMAIN PdfOwner
TopicIds == DOMAIN TopicOwner
UnknownId == 0
NoTime == -1

Min(a, b) == IF a < b THEN a ELSE b
Max(a, b) == IF a > b THEN a ELSE b

\* int(delta.total_seconds() / 60)
Minutes(from, to) == (to - from) \div 60

\* round(x, 2) of the hundredths n / d, n >= 0, d > 0
RoundDiv(n, d) ==
    LET q == n \div d
        r == n % d
    IN  IF 2 * r > d THEN q + 1
        ELSE IF 2 * r < d THEN q
        ELSE IF q % 2 = 0 THEN q ELSE q + 1

\* int(score * 50) of a score held in hundredths, as the float product gives it
IntTimes50(h) == IF h = 58 THEN 28 ELSE (h * 50) \div 100

\* round(score, 2) of the focus score n / d hundredths, computed in floats as
\* 1.0 - penalty / 100 - idle penalty.  A score halfway between two hundredths
\* is rounded as the float holds it: for sessions under 20 minutes the only
\* such scores are those of idle_minutes = total_minutes / 4, and their floats
\* lie above the half, except with the penalty 0.3, whose float is the exact
\* half and rounds to even.
RoundScore(n, d, penalty) ==
    IF 2 * (n % d) = d
    THEN IF penalty = 30 THEN n \div d ELSE n \div d + 1
    ELSE RoundDiv(n, d)

(***************************************************************************)
(* StudySession                                                            *)
(***************************************************************************)
ActivityFields == {"pages_visited", "pages_completed", "clicks_count",
                   "scroll_events", "interruptions"}

NewSession(uid, pdf_id, topic_id) ==
    [user_id |-> uid, pdf_id |-> pdf_id, topic_id |-> topic_id,
     start_time |-> now, end_time |-> NoTime,
     total_minutes |-> 0, active_minutes |-> 0, idle_minutes |-> 0,
     pages_visited |-> 0, pages_completed |-> 0, clicks_count |-> 0,
     scroll_events |-> 0, interruptions |-> 0,
     pomodoro_cycles |-> 0,
     focus_score |-> 0, productivity_score |-> 0, xp_earned |-> 0,
     is_active |-> TRUE, is_paused |-> FALSE, pause_count |-> 0,
     resume_times |-> 0]

duration_minutes(s) ==
    IF s.end_time # NoTime THEN Minutes(s.start_time, s.end_time)
    ELSE IF s.is_active THEN Minutes(s.start_time, now)
    ELSE s.total_minutes

\* a focus score that takes every minute that is not active as idle
calculate_focus_score_inactive_as_idle(s) ==
    IF s.total_minutes = 0 THEN 0
    ELSE LET interruption_penalty ==
                 IF s.interruptions > 0 THEN Min(50, s.interruptions * 10) ELSE 0
             idle == s.total_minutes - s.active_minutes
             idle_penalty ==
                 IF 5 * idle > s.total_minutes
                 THEN Min(30 * s.total_minutes, 150 * idle - 30 * s.total_minutes)
                 ELSE 0
         IN  Max(0, RoundScore((100 - interruption_penalty) * s.total_minutes - idle_penalty,
                               s.total_minutes, interruption_penalty))

\* a focus score whose idle penalty has no cap
calculate_focus_score_uncapped_idle(s) ==
    IF s.total_minutes = 0 THEN 0
    ELSE LET interruption_penalty ==
                 IF s.interruptions > 0 THEN Min(50, s.interruptions * 10) ELSE 0
             idle_penalty ==
                 IF 5 * s.idle_minutes > s.total_minutes
                 THEN 150 * s.idle_minutes - 30 * s.total_minutes
                 ELSE 0
             n == (100 - interruption_penalty) * s.total_minutes - idle_penalty
         IN  IF n <= 0 THEN 0
             ELSE RoundScore(n, s.total_minutes, interruption_penalty)

calculate_focus_score(s) ==
    IF s.total_minutes = 0 THEN 0
    ELSE LET interruption_penalty ==
                 IF s.interruptions > 0 THEN Min(50, s.interruptions * 10) ELSE 0
             \* idle_ratio > 0.2, penalty min(0.3, (idle_ratio - 0.2) * 1.5), times total_minutes
             idle_penalty ==
                 IF 5 * s.idle_minutes > s.total_minutes
                 THEN Min(30 * s.total_minutes,
                          150 * s.idle_minutes - 30 * s.total_minutes)
                 ELSE 0
         IN  Max(0, RoundScore((100 - interruption_penalty) * s.total_minutes - idle_penalty,
                               s.total_minutes, interruption_penalty))

\* the productivity score without the two min(1.0, ...) caps
calculate_productivity_score_uncapped(s) ==
    IF s.total_minutes = 0 THEN 0
    ELSE LET pd == Max(10, s.total_minutes)
             pn == 10 * s.pages_completed
             ad == Max(1, s.total_minutes * 5)
             an == s.clicks_count + s.scroll_events
         IN  RoundDiv(70 * pn * ad + 30 * an * pd, pd * ad)

\* a productivity score that divides total_minutes by 10 as integers
calculate_productivity_score_floor_division(s) ==
    IF s.total_minutes = 0 THEN 0
    ELSE LET pd == Max(1, s.total_minutes \div 10)
             pn == Min(pd, s.pages_completed)
             ad == Max(1, s.total_minutes * 5)
             an == Min(ad, s.clicks_count + s.scroll_events)
         IN  RoundDiv(70 * pn * ad + 30 * an * pd, pd * ad)

\* StudySession._calculate_productivity_score.  The sum is rounded in exact
\* arithmetic, a half hundredth to the even neighbour; the float sum of a
\* score that is exactly halfway may lie on either side of the half, and the
\* code's score is then the other neighbour.
calculate_productivity_score(s) ==
    IF s.total_minutes = 0 THEN 0
    ELSE LET \* pages_completed / max(1, total_minutes / 10), as a fraction pn / pd
             pd == Max(10, s.total_minutes)
             pn == Min(pd, 10 * s.pages_completed)
             \* (clicks + scrolls) / max(1, total_minutes * 5), as a fraction an / ad
             ad == Max(1, s.total_minutes * 5)
             an == Min(ad, s.clicks_count + s.scroll_events)
         IN  RoundDiv(70 * pn * ad + 30 * an * pd, pd * ad)

calculate_xp_earned(s) ==
    s.active_minutes * 2 + IntTimes50(s.focus_score)
      + IntTimes50(s.productivity_score)
      + s.pages_completed * 10 + s.pomodoro_cycles * 25

\* end_session that forgets to clear is_paused
end_session_keeps_paused(s) ==
    LET s1 == [s EXCEPT !.end_time = now, !.is_active = FALSE]
        s2 == [s1 EXCEPT !.total_minutes = duration_minutes(s1)]
        s3 == [s2 EXCEPT !.focus_score = calculate_focus_score(s2)]
        s4 == [s3 EXCEPT !.productivity_score = calculate_productivity_score(s3)]
    IN  [s4 EXCEPT !.xp_earned = calculate_xp_earned(s4)]

\* StudySession.end_session
end_session(s) ==
    LET s1 == [s EXCEPT !.end_time = now, !.is_active = FALSE, !.is_paused = FALSE]
        s2 == [s1 EXCEPT !.total_minutes = duration_minutes(s1)]
        s3 == [s2 EXCEPT !.focus_score = calculate_focus_score(s2)]
        s4 == [s3 EXCEPT !.productivity_score = calculate_productivity_score(s3)]
    IN  [s4 EXCEPT !.xp_earned = calculate_xp_earned(s4)]

\* a timing update that counts every elapsed minute as active
update_session_timing_all_active(s) ==
    LET s1 == [s EXCEPT !.total_minutes = Minutes(s.start_time, now)]
    IN  IF ~s1.is_paused
        THEN [s1 EXCEPT !.active_minutes = s1.total_minutes]
        ELSE [s1 EXCEPT !.idle_minutes = s1.total_minutes - s1.active_minutes]

\* TimerService._update_session_timing
update_session_timing(s) ==
    LET s1 == [s EXCEPT !.total_minutes = Minutes(s.start_time, now)]
    IN  IF ~s1.is_paused
        THEN [s1 EXCEPT !.active_minutes = Min(s1.total_minutes, s1.active_minutes + 1)]
        ELSE [s1 EXCEPT !.idle_minutes = s1.total_minutes - s1.active_minutes]

\* _get_user_session without the user_id filter
HasUserSession_any_owner(sid, uid) ==
    sid \in DOMAIN sessions

\* TimerService._get_user_session: the row, or none (404)
HasUserSession(sid, uid) ==
    sid \in DOMAIN sessions /\ sessions[sid].user_id = uid

\* TimerService.get_active_session: ids of the rows the query matches
ActiveSessions(uid) ==
    {sid \in DOMAIN sessions : sessions[sid].user_id = uid /\ sessions[sid].is_active}

\* the response to the latest call
Outcome(op, status) == [op |-> op, status |-> status]

\* A rejected call commits nothing: it leaves every table as it was, so whatever
\* can follow it can follow the state before it.  The model explores a rejected
\* call as a last step.
Ready == result.status = "ok"

\* a call that raises: the error is returned, the transaction is not committed
Fail(op, status) ==
    /\ Ready
    /\ result' = Outcome(op, status)
    /\ UNCHANGED <<now, db, ops, pc, txn>>

\* a call that commits
Ok(op) ==
    /\ Ready
    /\ ops < MaxOps
    /\ ops' = ops + 1
    /\ result' = Outcome(op, "ok")
    /\ UNCHANGED <<now, pc, txn>>

(***************************************************************************)
(* PageTime                                                                *)
(***************************************************************************)
NoValue == -1

NewPageTime(session_id, pdf_id, page_number, estimated_words) ==
    [session_id |-> session_id, pdf_id |-> pdf_id, page_number |-> page_number,
     estimated_words |-> estimated_words,
     start_time |-> now, end_time |-> NoTime,
     duration_seconds |-> 0, active_time_seconds |-> 0,
     activity_count |-> 0, click_count |-> 0, scroll_count |-> 0, zoom_changes |-> 0,
     notes_created |-> 0, highlights_made |-> 0, bookmarks_added |-> 0,
     reading_speed_wpm |-> NoValue, difficulty_rating |-> 1,
     comprehension_estimate |-> 0]

\* PageTime._calculate_difficulty_rating
calculate_difficulty_rating(pt) ==
    IF pt.duration_seconds = 0 THEN 1
    ELSE IF pt.duration_seconds < 60 THEN 1
    ELSE IF pt.duration_seconds < 120 THEN 2
    ELSE IF pt.duration_seconds < 240 THEN 3
    ELSE IF pt.duration_seconds < 480 THEN 4
    ELSE 5

\* PageTime.engagement_score as the fraction <<numerator, denominator>>;
\* activity_rate = activity_count / (duration_seconds / 60)
engagement_score(pt) ==
    IF pt.duration_seconds = 0 THEN <<0, 1>>
    ELSE LET ac == pt.activity_count
             dur == pt.duration_seconds
         IN  IF 60 * ac < 2 * dur THEN <<30 * ac, dur>>
             ELSE IF 60 * ac <= 5 * dur THEN <<1, 1>>
             ELSE IF 2 * (15 * dur - 60 * ac) > 10 * dur
                  THEN <<15 * dur - 60 * ac, 10 * dur>>
                  ELSE <<1, 2>>

\* PageTime._calculate_comprehension_estimate
calculate_comprehension_estimate(pt) ==
    LET e == engagement_score(pt)
        content_interaction == Min(3, pt.notes_created + pt.highlights_made)
    IN  RoundDiv(70 * e[1] * 3 + 30 * content_interaction * e[2], e[2] * 3)

\* end_page_timing that takes the reading speed from the whole duration
end_page_timing_speed_from_duration(pt) ==
    LET p1 == [pt EXCEPT !.end_time = now, !.duration_seconds = now - pt.start_time]
        p2 == IF p1.estimated_words > 0 /\ p1.duration_seconds > 0
              THEN [p1 EXCEPT !.reading_speed_wpm =
                       RoundDiv(100 * 60 * p1.estimated_words, p1.duration_seconds)]
              ELSE p1
        p3 == [p2 EXCEPT !.difficulty_rating = calculate_difficulty_rating(p2)]
    IN  [p3 EXCEPT !.comprehension_estimate = calculate_comprehension_estimate(p3)]

\* PageTime.end_page_timing
end_page_timing(pt) ==
    LET p1 == [pt EXCEPT !.end_time = now, !.duration_seconds = now - pt.start_time]
        p2 == IF p1.estimated_words > 0 /\ p1.active_time_seconds > 0
              THEN [p1 EXCEPT !.reading_speed_wpm =
                       RoundDiv(100 * 60 * p1.estimated_words, p1.active_time_seconds)]
              ELSE p1
        p3 == [p2 EXCEPT !.difficulty_rating = calculate_difficulty_rating(p2)]
    IN  [p3 EXCEPT !.comprehension_estimate = calculate_comprehension_estimate(p3)]

(***************************************************************************)
(* PomodoroSession                                                         *)
(***************************************************************************)
CycleTypes == {"work", "short_break", "long_break"}

NewPomodoro(study_session_id, cycle_number, cycle_type, planned) ==
    [study_session_id |-> study_session_id, cycle_number |-> cycle_number,
     cycle_type |-> cycle_type, planned_duration_minutes |-> planned,
     actual_duration_minutes |-> 0,
     started_at |-> now, completed_at |-> NoTime,
     completed |-> FALSE, interruptions |-> 0,
     productivity_score |-> 0, focus_score |-> 0, xp_earned |-> 0]

\* PomodoroSession._calculate_productivity_score
cycle_productivity_score(c) ==
    IF c.planned_duration_minutes = 0 THEN 0
    ELSE LET planned == c.planned_duration_minutes
             completion == Min(planned, c.actual_duration_minutes)
             interruption_penalty == Min(50, c.interruptions * 10)
             n == 100 * completion - interruption_penalty * planned
         IN  IF n <= 0 THEN 0 ELSE RoundDiv(n, planned)

\* a cycle focus score that takes only the short break as always focused
cycle_focus_score_short_break_only(c) ==
    IF c.cycle_type = "short_break" THEN 100
    ELSE LET penalty == IF c.interruptions > 0 THEN Min(80, c.interruptions * 20) ELSE 0
             bonus == IF c.completed
                         /\ c.actual_duration_minutes >= c.planned_duration_minutes
                      THEN 10 ELSE 0
         IN  Max(0, Min(100, 100 - penalty + bonus))

\* PomodoroSession._calculate_focus_score
cycle_focus_score(c) ==
    IF c.cycle_type # "work" THEN 100
    ELSE LET penalty == IF c.interruptions > 0 THEN Min(80, c.interruptions * 20) ELSE 0
             bonus == IF c.completed
                         /\ c.actual_duration_minutes >= c.planned_duration_minutes
                      THEN 10 ELSE 0
         IN  Max(0, Min(100, 100 - penalty + bonus))

\* PomodoroSession._calculate_xp_earned
cycle_xp_earned(c) ==
    IF c.cycle_type = "work"
    THEN (IF c.completed THEN 25 ELSE 10)
           + (c.focus_score * 15) \div 100 + (c.productivity_score * 10) \div 100
    ELSE IF c.completed THEN 5 ELSE 2

\* PomodoroSession.complete_cycle
complete_cycle(c) ==
    LET c1 == [c EXCEPT !.completed_at = now, !.completed = TRUE,
                        !.actual_duration_minutes = Minutes(c.started_at, now)]
        c2 == [c1 EXCEPT !.productivity_score = cycle_productivity_score(c1)]
        c3 == [c2 EXCEPT !.focus_score = cycle_focus_score(c2)]
    IN  [c3 EXCEPT !.xp_earned = cycle_xp_earned(c3)]

(***************************************************************************)
(* Initial state: empty tables, the collaborators' documents and topics.   *)
(***************************************************************************)
NoStats ==
    [present |-> FALSE, total_study_minutes |-> 0, total_active_minutes |-> 0,
     total_sessions |-> 0, pages_read |-> 0, pomodoro_cycles_completed |-> 0,
     xp_earned |-> 0, average_focus_score |-> 0, average_productivity_score |-> 0]

Procs == {1, 2}

Init ==
    /\ now = 0
    /\ sessions = << >>
    /\ page_times = << >>
    /\ pomodoros = << >>
    /\ reading_speeds = << >>
    /\ pdfs = [p \in PdfIds |-> [user_id |-> PdfOwner[p], actual_read_time |-> 0,
                                 view_count |-> 0, last_viewed_at |-> NoTime]]
    /\ topics = [t \in TopicIds |-> [user_id |-> TopicOwner[t], total_study_time |-> 0,
                                     last_studied_at |-> NoTime]]
    /\ user_stats = [u \in Users |-> NoStats]
    /\ result = Outcome("none", "ok")
    /\ ops = 0
    /\ pc = [p \in Procs |-> "idle"]
    /\ txn = [p \in Procs |-> << >>]

(***************************************************************************)
(* The clock.                                                              *)
(***************************************************************************)
Tick ==
    /\ Ready
    /\ ops < MaxOps
    /\ ops' = ops + 1
    /\ now' = now + TickSeconds
    /\ UNCHANGED <<db, result, pc, txn>>

(***************************************************************************)
(* Study session management.                                               *)
(***************************************************************************)
\* _end_existing_sessions that ends nothing
end_existing_sessions_none(table, uid) == table

\* _end_existing_sessions without the user_id filter
end_existing_sessions_all_users(table, uid) ==
    [sid \in DOMAIN table |->
        IF table[sid].is_active THEN end_session(table[sid]) ELSE table[sid]]

\* TimerService._end_existing_sessions, applied to the session table
end_existing_sessions(table, uid) ==
    [sid \in DOMAIN table |->
        IF table[sid].user_id = uid /\ table[sid].is_active
        THEN end_session(table[sid]) ELSE table[sid]]

\* start_session that leaves the user's active sessions as they are
StartSession_keeps_existing(uid, pdf_id, topic_id) ==
    IF ~(pdf_id \in PdfIds /\ pdfs[pdf_id].user_id = uid)
    THEN Fail("start", "not_found")
    ELSE IF topic_id \notin TopicIds
    THEN Fail("start", "db_error")
    ELSE /\ Ok("start")
         /\ sessions' = Append(sessions, NewSession(uid, pdf_id, topic_id))
         /\ UNCHANGED <<page_times, pomodoros, reading_speeds, pdfs, topics, user_stats>>

\* start_session that ends the active sessions, and commits, before the PDF check
StartSession_ends_before_check(uid, pdf_id, topic_id) ==
    IF ~(pdf_id \in PdfIds /\ pdfs[pdf_id].user_id = uid)
    THEN /\ Ready
         /\ result' = Outcome("start", "not_found")
         /\ sessions' = end_existing_sessions(sessions, uid)
         /\ UNCHANGED <<now, ops, pc, txn, page_times, pomodoros, reading_speeds,
                        pdfs, topics, user_stats>>
    ELSE IF topic_id \notin TopicIds
    THEN Fail("start", "db_error")
    ELSE /\ Ok("start")
         /\ sessions' = Append(end_existing_sessions(sessions, uid),
                               NewSession(uid, pdf_id, topic_id))
         /\ UNCHANGED <<page_times, pomodoros, reading_speeds, pdfs, topics, user_stats>>

\* TimerService.start_session
StartSession(uid, pdf_id, topic_id) ==
    IF ~(pdf_id \in PdfIds /\ pdfs[pdf_id].user_id = uid)
    THEN Fail("start", "not_found")
    ELSE IF topic_id \notin TopicIds
    THEN \* the insert violates the foreign key on commit; nothing is written
         Fail("start", "db_error")
    ELSE /\ Ok("start")
         /\ sessions' = Append(end_existing_sessions(sessions, uid),
                               NewSession(uid, pdf_id, topic_id))
         /\ UNCHANGED <<page_times, pomodoros, reading_speeds, pdfs, topics, user_stats>>

\* pause_session without the "already paused" check
PauseSession_no_paused_check(sid, uid) ==
    IF ~HasUserSession(sid, uid) THEN Fail("pause", "not_found")
    ELSE IF ~sessions[sid].is_active THEN Fail("pause", "invalid_state")
    ELSE LET s1 == [sessions[sid] EXCEPT !.is_paused = TRUE,
                                         !.pause_count = @ + 1]
         IN  /\ Ok("pause")
             /\ sessions' = [sessions EXCEPT ![sid] = update_session_timing(s1)]
             /\ UNCHANGED <<page_times, pomodoros, reading_speeds, pdfs, topics, user_stats>>

\* TimerService.pause_session
PauseSession(sid, uid) ==
    IF ~HasUserSession(sid, uid) THEN Fail("pause", "not_found")
    ELSE IF ~sessions[sid].is_active THEN Fail("pause", "invalid_state")
    ELSE IF sessions[sid].is_paused THEN Fail("pause", "invalid_state")
    ELSE LET s1 == [sessions[sid] EXCEPT !.is_paused = TRUE,
                                         !.pause_count = @ + 1]
         IN  /\ Ok("pause")
             /\ sessions' = [sessions EXCEPT ![sid] = update_session_timing(s1)]
             /\ UNCHANGED <<page_times, pomodoros, reading_speeds, pdfs, topics, user_stats>>

\* resume_session that runs the timing update, as pause_session does
ResumeSession_updates_timing(sid, uid) ==
    IF ~HasUserSession(sid, uid) THEN Fail("resume", "not_found")
    ELSE IF ~sessions[sid].is_active THEN Fail("resume", "invalid_state")
    ELSE IF ~sessions[sid].is_paused THEN Fail("resume", "invalid_state")
    ELSE /\ Ok("resume")
         /\ sessions' = [sessions EXCEPT ![sid] =
                update_session_timing([@ EXCEPT !.is_paused = FALSE,
                                                !.resume_times = @ + 1])]
         /\ UNCHANGED <<page_times, pomodoros, reading_speeds, pdfs, topics, user_stats>>

\* resume_session without the "not paused" check
ResumeSession_no_paused_check(sid, uid) ==
    IF ~HasUserSession(sid, uid) THEN Fail("resume", "not_found")
    ELSE IF ~sessions[sid].is_active THEN Fail("resume", "invalid_state")
    ELSE /\ Ok("resume")
         /\ sessions' = [sessions EXCEPT ![sid] =
                [@ EXCEPT !.is_paused = FALSE, !.resume_times = @ + 1]]
         /\ UNCHANGED <<page_times, pomodoros, reading_speeds, pdfs, topics, user_stats>>

\* TimerService.resume_session
ResumeSession(sid, uid) ==
    IF ~HasUserSession(sid, uid) THEN Fail("resume", "not_found")
    ELSE IF ~sessions[sid].is_active THEN Fail("resume", "invalid_state")
    ELSE IF ~sessions[sid].is_paused THEN Fail("resume", "invalid_state")
    ELSE /\ Ok("resume")
         /\ sessions' = [sessions EXCEPT ![sid] =
                [@ EXCEPT !.is_paused = FALSE, !.resume_times = @ + 1]]
         /\ UNCHANGED <<page_times, pomodoros, reading_speeds, pdfs, topics, user_stats>>

\* _create_reading_speed_entry that returns early on active_minutes = 0 alone
create_reading_speed_entry_any_pages(sid, s) ==
    IF s.active_minutes = 0 THEN << >>
    ELSE << [user_id |-> s.user_id, pdf_id |-> s.pdf_id, topic_id |-> s.topic_id,
             session_id |-> sid,
             pages_per_minute |-> RoundDiv(100 * s.pages_visited, s.active_minutes),
             content_type |-> "mixed", difficulty_level |-> 3,
             session_duration |-> s.active_minutes] >>

\* TimerService._create_reading_speed_entry: the rows added for ended session sid
create_reading_speed_entry(sid, s) ==
    IF s.pages_visited = 0 \/ s.active_minutes = 0 THEN << >>
    ELSE << [user_id |-> s.user_id, pdf_id |-> s.pdf_id, topic_id |-> s.topic_id,
             session_id |-> sid,
             pages_per_minute |-> RoundDiv(100 * s.pages_visited, s.active_minutes),
             content_type |-> "mixed", difficulty_level |-> 3,
             session_duration |-> s.active_minutes] >>

\* TimerService._update_user_statistics
update_user_statistics(st, s) ==
    LET n == st.total_sessions + 1
    IN  [present |-> TRUE,
         total_study_minutes |-> st.total_study_minutes + s.active_minutes,
         total_active_minutes |-> st.total_active_minutes + s.active_minutes,
         total_sessions |-> n,
         pages_read |-> st.pages_read + s.pages_visited,
         pomodoro_cycles_completed |-> st.pomodoro_cycles_completed + s.pomodoro_cycles,
         xp_earned |-> st.xp_earned + s.xp_earned,
         average_focus_score |->
             RoundDiv(st.average_focus_score * (n - 1) + s.focus_score, n),
         average_productivity_score |->
             RoundDiv(st.average_productivity_score * (n - 1) + s.productivity_score, n)]

\* end_session without the "not active" check
EndSession_no_active_check(sid, uid) ==
    IF ~HasUserSession(sid, uid) THEN Fail("end", "not_found")
    ELSE LET s == end_session(sessions[sid])
         IN  /\ Ok("end")
             /\ sessions' = [sessions EXCEPT ![sid] = s]
             /\ pdfs' = IF s.pdf_id \in DOMAIN pdfs
                        THEN [pdfs EXCEPT ![s.pdf_id] =
                                [@ EXCEPT !.actual_read_time = @ + s.active_minutes,
                                          !.view_count = @ + 1,
                                          !.last_viewed_at = now]]
                        ELSE pdfs
             /\ topics' = IF s.topic_id \in DOMAIN topics
                          THEN [topics EXCEPT ![s.topic_id] =
                                  [@ EXCEPT !.total_study_time = @ + s.active_minutes,
                                            !.last_studied_at = now]]
                          ELSE topics
             /\ reading_speeds' = reading_speeds \o create_reading_speed_entry(sid, s)
             /\ user_stats' = [user_stats EXCEPT ![uid] = update_user_statistics(@, s)]
             /\ UNCHANGED <<page_times, pomodoros>>

\* end_session that adds the session's total minutes to the document's read time
EndSession_adds_total_minutes(sid, uid) ==
    IF ~HasUserSession(sid, uid) THEN Fail("end", "not_found")
    ELSE IF ~sessions[sid].is_active THEN Fail("end", "invalid_state")
    ELSE LET s == end_session(sessions[sid])
         IN  /\ Ok("end")
             /\ sessions' = [sessions EXCEPT ![sid] = s]
             /\ pdfs' = IF s.pdf_id \in DOMAIN pdfs
                        THEN [pdfs EXCEPT ![s.pdf_id] =
                                [@ EXCEPT !.actual_read_time = @ + s.total_minutes,
                                          !.view_count = @ + 1,
                                          !.last_viewed_at = now]]
                        ELSE pdfs
             /\ topics' = IF s.topic_id \in DOMAIN topics
                          THEN [topics EXCEPT ![s.topic_id] =
                                  [@ EXCEPT !.total_study_time = @ + s.active_minutes,
                                            !.last_studied_at = now]]
                          ELSE topics
             /\ reading_speeds' = reading_speeds \o create_reading_speed_entry(sid, s)
             /\ user_stats' = [user_stats EXCEPT ![uid] = update_user_statistics(@, s)]
             /\ UNCHANGED <<page_times, pomodoros>>

\* TimerService.end_session
EndSession(sid, uid) ==
    IF ~HasUserSession(sid, uid) THEN Fail("end", "not_found")
    ELSE IF ~sessions[sid].is_active THEN Fail("end", "invalid_state")
    ELSE LET s == end_session(sessions[sid])
         IN  /\ Ok("end")
             /\ sessions' = [sessions EXCEPT ![sid] = s]
             /\ pdfs' = IF s.pdf_id \in DOMAIN pdfs
                        THEN [pdfs EXCEPT ![s.pdf_id] =
                                [@ EXCEPT !.actual_read_time = @ + s.active_minutes,
                                          !.view_count = @ + 1,
                                          !.last_viewed_at = now]]
                        ELSE pdfs
             /\ topics' = IF s.topic_id \in DOMAIN topics
                          THEN [topics EXCEPT ![s.topic_id] =
                                  [@ EXCEPT !.total_study_time = @ + s.active_minutes,
                                            !.last_studied_at = now]]
                          ELSE topics
             /\ reading_speeds' = reading_speeds \o create_reading_speed_entry(sid, s)
             /\ user_stats' = [user_stats EXCEPT ![uid] = update_user_statistics(@, s)]
             /\ UNCHANGED <<page_times, pomodoros>>

\* SessionActivityUpdate payloads that supply no field or one: the supplied
\* fields and their values
ActivityUpdates ==
    {<< >>} \cup UNION {[{f} -> 0..MaxCount] : f \in ActivityFields}

\* a merge that stores the supplied value
merge_activity_overwrite(row, activity) ==
    [f \in DOMAIN row |-> IF f \in DOMAIN activity THEN activity[f] ELSE row[f]]

\* the "maximum wins" merge of the supplied fields into a row
merge_activity(row, activity) ==
    [f \in DOMAIN row |->
        IF f \in DOMAIN activity THEN Max(row[f], activity[f]) ELSE row[f]]

\* update_session_activity without the "not active" check
UpdateSessionActivity_no_active_check(sid, uid, activity) ==
    IF ~HasUserSession(sid, uid) THEN Fail("update", "not_found")
    ELSE /\ Ok("update")
         /\ sessions' = [sessions EXCEPT ![sid] =
                update_session_timing(merge_activity(@, activity))]
         /\ UNCHANGED <<page_times, pomodoros, reading_speeds, pdfs, topics, user_stats>>

\* TimerService.update_session_activity
UpdateSessionActivity(sid, uid, activity) ==
    IF ~HasUserSession(sid, uid) THEN Fail("update", "not_found")
    ELSE IF ~sessions[sid].is_active THEN Fail("update", "invalid_state")
    ELSE /\ Ok("update")
         /\ sessions' = [sessions EXCEPT ![sid] =
                update_session_timing(merge_activity(@, activity))]
         /\ UNCHANGED <<page_times, pomodoros, reading_speeds, pdfs, topics, user_stats>>

(***************************************************************************)
(* Page-level timing.                                                      *)
(***************************************************************************)
OpenPageTimes(session_id) ==
    {pid \in DOMAIN page_times :
        page_times[pid].session_id = session_id /\ page_times[pid].end_time = NoTime}

\* start_page_timer that leaves the open page timer of the session open
StartPageTimer_keeps_open(uid, session_id, pdf_id, page_number, estimated_words) ==
    IF ~HasUserSession(session_id, uid) THEN Fail("start_page", "not_found")
    ELSE IF pdf_id \notin PdfIds THEN Fail("start_page", "db_error")
    ELSE /\ Ok("start_page")
         /\ page_times' = Append(page_times,
                NewPageTime(session_id, pdf_id, page_number, estimated_words))
         /\ UNCHANGED <<sessions, pomodoros, reading_speeds, pdfs, topics, user_stats>>

\* TimerService.start_page_timer
StartPageTimer(uid, session_id, pdf_id, page_number, estimated_words) ==
    IF ~HasUserSession(session_id, uid) THEN Fail("start_page", "not_found")
    ELSE IF pdf_id \notin PdfIds THEN Fail("start_page", "db_error")
    ELSE /\ Ok("start_page")
         /\ \E existing \in (IF OpenPageTimes(session_id) = {} THEN {0}
                             ELSE OpenPageTimes(session_id)) :
               page_times' = Append(
                   [pid \in DOMAIN page_times |->
                       IF pid = existing THEN end_page_timing(page_times[pid])
                       ELSE page_times[pid]],
                   NewPageTime(session_id, pdf_id, page_number, estimated_words))
         /\ UNCHANGED <<sessions, pomodoros, reading_speeds, pdfs, topics, user_stats>>

\* end_page_timer without the filter on open timers
EndPageTimer_no_open_check(page_time_id, uid) ==
    IF ~(/\ page_time_id \in DOMAIN page_times
         /\ sessions[page_times[page_time_id].session_id].user_id = uid)
    THEN Fail("end_page", "not_found")
    ELSE /\ Ok("end_page")
         /\ page_times' = [page_times EXCEPT ![page_time_id] = end_page_timing(@)]
         /\ UNCHANGED <<sessions, pomodoros, reading_speeds, pdfs, topics, user_stats>>

\* TimerService.end_page_timer
EndPageTimer(page_time_id, uid) ==
    IF ~(/\ page_time_id \in DOMAIN page_times
         /\ page_times[page_time_id].end_time = NoTime
         /\ sessions[page_times[page_time_id].session_id].user_id = uid)
    THEN Fail("end_page", "not_found")
    ELSE /\ Ok("end_page")
         /\ page_times' = [page_times EXCEPT ![page_time_id] = end_page_timing(@)]
         /\ UNCHANGED <<sessions, pomodoros, reading_speeds, pdfs, topics, user_stats>>

\* PageTimeUpdate: the counters a client may report for a page
PageActivityFields == {"activity_count", "click_count", "scroll_count", "zoom_changes",
                       "notes_created", "highlights_made", "bookmarks_added"}

\* the row after the total activity count is recomputed
with_activity_count(pt) ==
    [pt EXCEPT !.activity_count = pt.click_count + pt.scroll_count + pt.zoom_changes]

\* TimerService.update_page_activity
UpdatePageActivity(page_time_id, uid, activity) ==
    IF ~(/\ page_time_id \in DOMAIN page_times
         /\ sessions[page_times[page_time_id].session_id].user_id = uid)
    THEN Fail("update_page", "not_found")
    ELSE /\ Ok("update_page")
         /\ page_times' = [page_times EXCEPT ![page_time_id] =
                with_activity_count(merge_activity(@, activity))]
         /\ UNCHANGED <<sessions, pomodoros, reading_speeds, pdfs, topics, user_stats>>

\* PageActivityEvent.event_type and the counter each type raises
EventCounter == [click |-> "click_count", scroll |-> "scroll_count",
                 zoom |-> "zoom_changes", note |-> "notes_created",
                 highlight |-> "highlights_made", bookmark |-> "bookmarks_added"]
EventTypes == DOMAIN EventCounter

\* record_page_activity_event, for an event without position or data
RecordPageActivityEvent(page_time_id, uid, event_type) ==
    IF ~(/\ page_time_id \in DOMAIN page_times
         /\ sessions[page_times[page_time_id].session_id].user_id = uid)
    THEN Fail("page_event", "not_found")
    ELSE /\ Ok("page_event")
         /\ page_times' = [page_times EXCEPT ![page_time_id] =
                with_activity_count([@ EXCEPT ![EventCounter[event_type]] = @ + 1])]
         /\ UNCHANGED <<sessions, pomodoros, reading_speeds, pdfs, topics, user_stats>>

(***************************************************************************)
(* Pomodoro cycles.                                                        *)
(***************************************************************************)
\* TimerService.start_pomodoro_cycle
StartPomodoroCycle(uid, study_session_id, cycle_number, cycle_type, planned) ==
    IF ~HasUserSession(study_session_id, uid) THEN Fail("start_pomodoro", "not_found")
    ELSE /\ Ok("start_pomodoro")
         /\ pomodoros' = Append(pomodoros,
                NewPomodoro(study_session_id, cycle_number, cycle_type, planned))
         /\ UNCHANGED <<sessions, page_times, reading_speeds, pdfs, topics, user_stats>>

\* complete_pomodoro_cycle without the filter on cycles not yet completed
CompletePomodoroCycle_no_completed_check(pomodoro_id, uid, interruptions) ==
    IF ~(/\ pomodoro_id \in DOMAIN pomodoros
         /\ sessions[pomodoros[pomodoro_id].study_session_id].user_id = uid)
    THEN Fail("complete_pomodoro", "not_found")
    ELSE LET c == complete_cycle([pomodoros[pomodoro_id] EXCEPT
                                     !.interruptions = interruptions])
             sid == c.study_session_id
         IN  /\ Ok("complete_pomodoro")
             /\ pomodoros' = [pomodoros EXCEPT ![pomodoro_id] = c]
             /\ sessions' = IF sid \in DOMAIN sessions
                            THEN [sessions EXCEPT ![sid] =
                                    [@ EXCEPT !.pomodoro_cycles = @ + 1,
                                              !.xp_earned = @ + c.xp_earned]]
                            ELSE sessions
             /\ UNCHANGED <<page_times, reading_speeds, pdfs, topics, user_stats>>

\* TimerService.complete_pomodoro_cycle
CompletePomodoroCycle(pomodoro_id, uid, interruptions) ==
    IF ~(/\ pomodoro_id \in DOMAIN pomodoros
         /\ ~pomodoros[pomodoro_id].completed
         /\ sessions[pomodoros[pomodoro_id].study_session_id].user_id = uid)
    THEN Fail("complete_pomodoro", "not_found")
    ELSE LET c == complete_cycle([pomodoros[pomodoro_id] EXCEPT
                                     !.interruptions = interruptions])
             sid == c.study_session_id
         IN  /\ Ok("complete_pomodoro")
             /\ pomodoros' = [pomodoros EXCEPT ![pomodoro_id] = c]
             /\ sessions' = IF sid \in DOMAIN sessions
                            THEN [sessions EXCEPT ![sid] =
                                    [@ EXCEPT !.pomodoro_cycles = @ + 1,
                                              !.xp_earned = @ + c.xp_earned]]
                            ELSE sessions
             /\ UNCHANGED <<page_times, reading_speeds, pdfs, topics, user_stats>>

(***************************************************************************)
(* Queries and reading-speed samples.                                      *)
(***************************************************************************)
\* the response that carries no session
Absent == 0

\* get_active_session without the is_active filter
GetActiveSession_no_active_filter(uid) ==
    /\ Ready
    /\ ops < MaxOps
    /\ ops' = ops + 1
    /\ \E sid \in (IF {i \in DOMAIN sessions : sessions[i].user_id = uid} = {}
                   THEN {Absent}
                   ELSE {i \in DOMAIN sessions : sessions[i].user_id = uid}) :
          result' = [op |-> "get_active", status |-> "ok", session |-> sid]
    /\ UNCHANGED <<now, db, pc, txn>>

\* GET /sessions/active: the first row the query of get_active_session
\* matches, or none
GetActiveSession(uid) ==
    /\ Ready
    /\ ops < MaxOps
    /\ ops' = ops + 1
    /\ \E sid \in (IF ActiveSessions(uid) = {} THEN {Absent} ELSE ActiveSessions(uid)) :
          result' = [op |-> "get_active", status |-> "ok", session |-> sid]
    /\ UNCHANGED <<now, db, pc, txn>>

\* POST /reading-speed: a sample reported by the client, bound to no document,
\* topic or session
RecordReadingSpeed(uid, content_type, difficulty_level, pages_per_minute) ==
    /\ Ok("record_speed")
    /\ reading_speeds' = Append(reading_speeds,
          [user_id |-> uid, pdf_id |-> NoValue, topic_id |-> NoValue,
           session_id |-> NoValue, pages_per_minute |-> pages_per_minute,
           content_type |-> content_type, difficulty_level |-> difficulty_level,
           session_duration |-> 1])
    /\ UNCHANGED <<sessions, page_times, pomodoros, pdfs, topics, user_stats>>

\* the Document Catalog's totalPages, currentPage and difficultyRating
PdfTotalPages == <<10, 10>>
PdfCurrentPage == <<1, 1>>
PdfDifficulty == <<1, 3>>

\* the average over every sample of the user with the document's difficulty
avg_reading_speed_any_content(uid, difficulty) ==
    LET matching == {i \in DOMAIN reading_speeds :
                        /\ reading_speeds[i].user_id = uid
                        /\ reading_speeds[i].difficulty_level = difficulty}
        total[n \in 0..Len(reading_speeds)] ==
            IF n = 0 THEN 0
            ELSE total[n - 1]
                   + (IF n \in matching THEN reading_speeds[n].pages_per_minute ELSE 0)
    IN  IF matching = {} \/ total[Len(reading_speeds)] = 0 THEN <<50, 1>>
        ELSE <<total[Len(reading_speeds)], Cardinality(matching)>>

\* lines 505-509: func.avg(pages_per_minute) of the user's 'text' samples with
\* the document's difficulty, or 0.5; hundredths, as <<numerator, denominator>>
avg_reading_speed(uid, difficulty) ==
    LET matching == {i \in DOMAIN reading_speeds :
                        /\ reading_speeds[i].user_id = uid
                        /\ reading_speeds[i].content_type = "text"
                        /\ reading_speeds[i].difficulty_level = difficulty}
        total[n \in 0..Len(reading_speeds)] ==
            IF n = 0 THEN 0
            ELSE total[n - 1]
                   + (IF n \in matching THEN reading_speeds[n].pages_per_minute ELSE 0)
    IN  IF matching = {} \/ total[Len(reading_speeds)] = 0 THEN <<50, 1>>
        ELSE <<total[Len(reading_speeds)], Cardinality(matching)>>

\* lines 518-521: difficulty_multiplier, in tenths
difficulty_multiplier == <<8, 9, 10, 12, 15>>

\* line 529
confidence_level(session_count) ==
    IF session_count >= 3 THEN "high"
    ELSE IF session_count >= 1 THEN "medium" ELSE "low"

\* TimerService.calculate_reading_completion_estimate
GetCompletionEstimate(pdf_id, uid) ==
    IF ~(pdf_id \in PdfIds /\ pdfs[pdf_id].user_id = uid)
    THEN Fail("estimate", "not_found")
    ELSE LET avg == avg_reading_speed(uid, PdfDifficulty[pdf_id])
             remaining_pages == Max(0, PdfTotalPages[pdf_id] - PdfCurrentPage[pdf_id] + 1)
             multiplier == difficulty_multiplier[PdfDifficulty[pdf_id]]
             estimated_minutes ==
                 (((remaining_pages * 100 * avg[2]) \div avg[1]) * multiplier) \div 10
             session_count ==
                 Cardinality({sid \in DOMAIN sessions :
                                 /\ sessions[sid].user_id = uid
                                 /\ sessions[sid].pdf_id = pdf_id})
         IN  /\ Ready
             /\ ops < MaxOps
             /\ ops' = ops + 1
             /\ result' = [op |-> "estimate", status |-> "ok", pdf_id |-> pdf_id,
                           remaining_pages |-> remaining_pages,
                           estimated_minutes |-> estimated_minutes,
                           estimated_hours |-> RoundDiv(100 * estimated_minutes, 60),
                           confidence_level |-> confidence_level(session_count),
                           avg_reading_speed |-> avg,
                           based_on_sessions |-> session_count,
                           difficulty_adjustment |-> multiplier]
             /\ UNCHANGED <<now, db, pc, txn>>

(***************************************************************************)
(* Inputs of the calls.                                                    *)
(***************************************************************************)
\* ids a caller may name: every stored row and one id of no row
SessionIdInputs == 1..(Len(sessions) + 1)
PageTimeIdInputs == 1..(Len(page_times) + 1)
PomodoroIdInputs == 1..(Len(pomodoros) + 1)
PdfInputs == PdfIds \cup {UnknownId}
TopicInputs == TopicIds \cup {UnknownId}
\* the caller's own topics, or an id of no topic
OwnTopicInputs(uid) == {t \in TopicIds : topics[t].user_id = uid} \cup {UnknownId}
\* a page is opened in the session's document, or names no document
PagePdfInputs(sid) ==
    (IF sid \in DOMAIN sessions THEN {sessions[sid].pdf_id} ELSE {}) \cup {UnknownId}
\* a client that reports all its counters at once, or none
FullActivityUpdates ==
    {<< >>} \cup {[f \in ActivityFields |-> v] : v \in 0..MaxCount}

(***************************************************************************)
(* Serialized requests: every call runs to its commit before the next.     *)
(* Spec has every operation of the engine, on coarse inputs.               *)
(***************************************************************************)
Next ==
    \/ Tick
    \/ \E uid \in Users, pdf_id \in PdfInputs :
          \E topic_id \in OwnTopicInputs(uid) : StartSession(uid, pdf_id, topic_id)
    \/ \E sid \in SessionIdInputs, uid \in Users : PauseSession(sid, uid)
    \/ \E sid \in SessionIdInputs, uid \in Users : ResumeSession(sid, uid)
    \/ \E sid \in SessionIdInputs, uid \in Users : EndSession(sid, uid)
    \/ \E sid \in SessionIdInputs, uid \in Users, activity \in FullActivityUpdates :
          UpdateSessionActivity(sid, uid, activity)
    \/ \E sid \in SessionIdInputs, uid \in Users :
          \E pdf_id \in PagePdfInputs(sid) : StartPageTimer(uid, sid, pdf_id, 1, 250)
    \/ \E pid \in PageTimeIdInputs, uid \in Users : EndPageTimer(pid, uid)
    \/ \E sid \in SessionIdInputs, uid \in Users :
          StartPomodoroCycle(uid, sid, 1, "work", 1)
    \/ \E cid \in PomodoroIdInputs, uid \in Users : CompletePomodoroCycle(cid, uid, 0)

Spec == Init /\ [][Next]_vars

(***************************************************************************)
(* SpecSession has the session operations alone, on activity updates that  *)
(* supply no field or any one of the fields.                               *)
(***************************************************************************)
NextSession ==
    \/ Tick
    \/ \E uid \in Users, pdf_id \in PdfInputs :
          \E topic_id \in OwnTopicInputs(uid) : StartSession(uid, pdf_id, topic_id)
    \/ \E sid \in SessionIdInputs, uid \in Users : PauseSession(sid, uid)
    \/ \E sid \in SessionIdInputs, uid \in Users : ResumeSession(sid, uid)
    \/ \E sid \in SessionIdInputs, uid \in Users : EndSession(sid, uid)
    \/ \E sid \in SessionIdInputs, uid \in Users, activity \in ActivityUpdates :
          UpdateSessionActivity(sid, uid, activity)

SpecSession == Init /\ [][NextSession]_vars

(***************************************************************************)
(* SpecPage has the page timers of the sessions: opening and closing them, *)
(* the activity reported for them, and the start and end of sessions.      *)
(***************************************************************************)
\* a client that reports all the counters of a page at once, or none
PageActivityUpdates ==
    {<< >>} \cup {[f \in PageActivityFields |-> v] : v \in 0..MaxCount}

NextPage ==
    \/ Tick
    \/ \E uid \in Users, pdf_id \in PdfIds, topic_id \in TopicIds :
          StartSession(uid, pdf_id, topic_id)
    \/ \E sid \in SessionIdInputs, uid \in Users : EndSession(sid, uid)
    \/ \E sid \in SessionIdInputs, uid \in Users :
          \E pdf_id \in PagePdfInputs(sid) : StartPageTimer(uid, sid, pdf_id, 1, 250)
    \/ \E pid \in PageTimeIdInputs, uid \in Users : EndPageTimer(pid, uid)
    \/ \E pid \in PageTimeIdInputs, uid \in Users, activity \in PageActivityUpdates :
          UpdatePageActivity(pid, uid, activity)
    \/ \E pid \in PageTimeIdInputs, uid \in Users, event_type \in EventTypes :
          RecordPageActivityEvent(pid, uid, event_type)

SpecPage == Init /\ [][NextPage]_vars

(***************************************************************************)
(* SpecScore starts from a session whose counters a client has reported    *)
(* right after its start, and runs it to its end through ticks, pauses,    *)
(* timing updates, an End or the Start of another session.                 *)
(***************************************************************************)
InitScore ==
    /\ now = 0
    /\ \E interruptions \in 0..MaxDrawn, pages_completed \in 0..MaxDrawn,
          clicks_count \in {0, MaxDrawn} :
          sessions = << [NewSession(1, 1, 1) EXCEPT
                            !.interruptions = interruptions,
                            !.pages_completed = pages_completed,
                            !.clicks_count = clicks_count] >>
    /\ page_times = << >>
    /\ pomodoros = << >>
    /\ reading_speeds = << >>
    /\ pdfs = [p \in PdfIds |-> [user_id |-> PdfOwner[p], actual_read_time |-> 0,
                                 view_count |-> 0, last_viewed_at |-> NoTime]]
    /\ topics = [t \in TopicIds |-> [user_id |-> TopicOwner[t], total_study_time |-> 0,
                                     last_studied_at |-> NoTime]]
    /\ user_stats = [u \in Users |-> NoStats]
    /\ result = Outcome("start", "ok")
    /\ ops = 0
    /\ pc = [p \in Procs |-> "idle"]
    /\ txn = [p \in Procs |-> << >>]

NextScore ==
    \/ Tick
    \/ \E sid \in DOMAIN sessions : PauseSession(sid, sessions[sid].user_id)
    \/ \E sid \in DOMAIN sessions :
          UpdateSessionActivity(sid, sessions[sid].user_id, << >>)
    \/ \E sid \in DOMAIN sessions : EndSession(sid, sessions[sid].user_id)
    \/ StartSession(1, 1, 1)

SpecScore == InitScore /\ [][NextScore]_vars

(***************************************************************************)
(* SpecQuery has the two queries of the engine, with the calls that change *)
(* what they answer: the start and end of sessions and the samples a       *)
(* client reports.                                                         *)
(***************************************************************************)
\* the samples a client reports: content type, difficulty, pages per minute
SpeedInputs == {<<"text", 1, 100>>, <<"text", 1, 200>>, <<"mixed", 1, 200>>,
                <<"text", 3, 200>>}

NextQuery ==
    \/ \E uid \in Users, pdf_id \in PdfIds : StartSession(uid, pdf_id, uid)
    \/ \E sid \in DOMAIN sessions : EndSession(sid, sessions[sid].user_id)
    \/ \E uid \in Users, sample \in SpeedInputs :
          RecordReadingSpeed(uid, sample[1], sample[2], sample[3])
    \/ \E uid \in Users : GetActiveSession(uid)
    \/ \E uid \in Users, pdf_id \in PdfInputs : GetCompletionEstimate(pdf_id, uid)

SpecQuery == Init /\ [][NextQuery]_vars

(***************************************************************************)
(* SpecProductivity starts from a running session of any age whose         *)
(* counters a client reported right after its start, and ends it.          *)
(***************************************************************************)
\* the minutes since the start of the session, and the counters reported
ElapsedMinutes == (0..MaxDrawn) \cup {10, 15, 30, 100}
ClickCounts == {0, 1, MaxDrawn, 200}
ScrollCounts == {0, 1, 100}

InitProductivity ==
    /\ now \in {60 * m : m \in ElapsedMinutes}
    /\ \E pages_completed \in 0..MaxDrawn, clicks_count \in ClickCounts,
          scroll_events \in ScrollCounts :
          sessions = << [user_id |-> 1, pdf_id |-> 1, topic_id |-> 1,
                         start_time |-> 0, end_time |-> NoTime,
                         total_minutes |-> 0, active_minutes |-> 0, idle_minutes |-> 0,
                         pages_visited |-> 0, pages_completed |-> pages_completed,
                         clicks_count |-> clicks_count,
                         scroll_events |-> scroll_events, interruptions |-> 0,
                         pomodoro_cycles |-> 0,
                         focus_score |-> 0, productivity_score |-> 0, xp_earned |-> 0,
                         is_active |-> TRUE, is_paused |-> FALSE, pause_count |-> 0,
                         resume_times |-> 0] >>
    /\ page_times = << >>
    /\ pomodoros = << >>
    /\ reading_speeds = << >>
    /\ pdfs = [p \in PdfIds |-> [user_id |-> PdfOwner[p], actual_read_time |-> 0,
                                 view_count |-> 0, last_viewed_at |-> NoTime]]
    /\ topics = [t \in TopicIds |-> [user_id |-> TopicOwner[t], total_study_time |-> 0,
                                     last_studied_at |-> NoTime]]
    /\ user_stats = [u \in Users |-> NoStats]
    /\ result = Outcome("update", "ok")
    /\ ops = 0
    /\ pc = [p \in Procs |-> "idle"]
    /\ txn = [p \in Procs |-> << >>]

NextProductivity ==
    \/ Tick
    \/ EndSession(1, 1)

SpecProductivity == InitProductivity /\ [][NextProductivity]_vars

(***************************************************************************)
(* SpecCycle has the Pomodoro cycles of one user's sessions: cycles of     *)
(* every type, completed with any number of interruptions.                 *)
(***************************************************************************)
NextCycle ==
    \/ Tick
    \/ StartSession(1, 1, 1)
    \/ \E sid \in DOMAIN sessions, cycle_type \in CycleTypes, planned \in {1, 5} :
          StartPomodoroCycle(1, sid, 1, cycle_type, planned)
    \/ \E cid \in PomodoroIdInputs, interruptions \in 0..MaxDrawn :
          CompletePomodoroCycle(cid, 1, interruptions)

SpecCycle == Init /\ [][NextCycle]_vars

(***************************************************************************)
(* SpecPageWords opens page timers on several pages and with several       *)
(* estimated word counts, in one user's sessions, and closes them.         *)
(***************************************************************************)
PageNumbers == 1..2
WordCounts == {0, 1, 250}

NextPageWords ==
    \/ Tick
    \/ StartSession(1, 1, 1)
    \/ \E sid \in DOMAIN sessions, page_number \in PageNumbers,
          estimated_words \in WordCounts :
          StartPageTimer(1, sid, 1, page_number, estimated_words)
    \/ \E pid \in PageTimeIdInputs : EndPageTimer(pid, 1)

SpecPageWords == Init /\ [][NextPageWords]_vars

(***************************************************************************)
(* SpecFocus starts from a session that was paused right after its start,  *)
(* with the interruptions a client reported and the idle minutes an update *)
(* made while it was paused has recorded, and ends it.                     *)
(***************************************************************************)
\* the minutes since the start of the session
FocusMinutes == 0..(MaxDrawn + 5)

InitFocus ==
    /\ now \in {60 * m : m \in FocusMinutes}
    /\ \E interruptions \in 0..MaxDrawn, idle_minutes \in 0..(now \div 60) :
          sessions = << [user_id |-> 1, pdf_id |-> 1, topic_id |-> 1,
                         start_time |-> 0, end_time |-> NoTime,
                         total_minutes |-> idle_minutes, active_minutes |-> 0,
                         idle_minutes |-> idle_minutes,
                         pages_visited |-> 0, pages_completed |-> 0, clicks_count |-> 0,
                         scroll_events |-> 0, interruptions |-> interruptions,
                         pomodoro_cycles |-> 0,
                         focus_score |-> 0, productivity_score |-> 0, xp_earned |-> 0,
                         is_active |-> TRUE, is_paused |-> TRUE, pause_count |-> 1,
                         resume_times |-> 0] >>
    /\ page_times = << >>
    /\ pomodoros = << >>
    /\ reading_speeds = << >>
    /\ pdfs = [p \in PdfIds |-> [user_id |-> PdfOwner[p], actual_read_time |-> 0,
                                 view_count |-> 0, last_viewed_at |-> NoTime]]
    /\ topics = [t \in TopicIds |-> [user_id |-> TopicOwner[t], total_study_time |-> 0,
                                     last_studied_at |-> NoTime]]
    /\ user_stats = [u \in Users |-> NoStats]
    /\ result = Outcome("update", "ok")
    /\ ops = 0
    /\ pc = [p \in Procs |-> "idle"]
    /\ txn = [p \in Procs |-> << >>]

NextFocus ==
    \/ Tick
    \/ EndSession(1, 1)

SpecFocus == InitFocus /\ [][NextFocus]_vars

(***************************************************************************)
(* SpecPaused starts from the same paused session and has its user call    *)
(* the session operations on it.                                           *)
(***************************************************************************)
NextPaused ==
    \/ Tick
    \/ PauseSession(1, 1)
    \/ ResumeSession(1, 1)
    \/ EndSession(1, 1)
    \/ \E activity \in {<< >>, [pages_visited |-> MaxCount]} :
          UpdateSessionActivity(1, 1, activity)

SpecPaused == InitFocus /\ [][NextPaused]_vars

(***************************************************************************)
(* SpecEstimate starts from a running session of either user on their own  *)
(* document, updated once in each of its minutes, with the pages a client  *)
(* reported; the session is ended and completion estimates are asked for.  *)
(***************************************************************************)
InitEstimate ==
    /\ now \in {60 * m : m \in 0..MaxDrawn}
    /\ \E uid \in Users, pages_visited \in 0..MaxDrawn :
          sessions = << [user_id |-> uid, pdf_id |-> uid, topic_id |-> uid,
                         start_time |-> 0, end_time |-> NoTime,
                         total_minutes |-> now \div 60,
                         active_minutes |-> now \div 60, idle_minutes |-> 0,
                         pages_visited |-> pages_visited, pages_completed |-> 0,
                         clicks_count |-> 0, scroll_events |-> 0, interruptions |-> 0,
                         pomodoro_cycles |-> 0,
                         focus_score |-> 0, productivity_score |-> 0, xp_earned |-> 0,
                         is_active |-> TRUE, is_paused |-> FALSE, pause_count |-> 0,
                         resume_times |-> 0] >>
    /\ page_times = << >>
    /\ pomodoros = << >>
    /\ reading_speeds = << >>
    /\ pdfs = [p \in PdfIds |-> [user_id |-> PdfOwner[p], actual_read_time |-> 0,
                                 view_count |-> 0, last_viewed_at |-> NoTime]]
    /\ topics = [t \in TopicIds |-> [user_id |-> TopicOwner[t], total_study_time |-> 0,
                                     last_studied_at |-> NoTime]]
    /\ user_stats = [u \in Users |-> NoStats]
    /\ result = Outcome("update", "ok")
    /\ ops = 0
    /\ pc = [p \in Procs |-> "idle"]
    /\ txn = [p \in Procs |-> << >>]

NextEstimate ==
    \/ Tick
    \/ \E uid \in Users : EndSession(1, uid)
    \/ \E uid \in Users, pdf_id \in PdfIds : GetCompletionEstimate(pdf_id, uid)

SpecEstimate == InitEstimate /\ [][NextEstimate]_vars

(***************************************************************************)
(* Concurrent requests.  Every request has its own database session        *)
(* (get_db) and nothing in start_session locks: the queries of one request *)
(* read what is committed, its writes are pending until its commit.        *)
(* SpecConc runs start_session in two requests, statement by statement.    *)
(***************************************************************************)
\* the columns StudySession.end_session assigns, written by the UPDATE
EndedColumns == {"end_time", "is_active", "is_paused", "total_minutes",
                 "focus_score", "productivity_score", "xp_earned"}

\* lines 45-55: the PDF ownership query
StartVerifyPdf(p, uid, pdf_id, topic_id) ==
    /\ Ready
    /\ pc[p] = "idle"
    /\ ops < MaxOps
    /\ IF ~(pdf_id \in PdfIds /\ pdfs[pdf_id].user_id = uid)
       THEN /\ result' = Outcome("start", "not_found")
            /\ UNCHANGED <<pc, txn>>
       ELSE /\ pc' = [pc EXCEPT ![p] = "verified"]
            /\ txn' = [txn EXCEPT ![p] = [user_id |-> uid, pdf_id |-> pdf_id,
                                          topic_id |-> topic_id, loaded |-> << >>]]
            /\ UNCHANGED result
    /\ UNCHANGED <<now, db, ops>>

\* lines 660-664: the query of the user's active sessions loads the rows
StartQueryActive(p) ==
    /\ Ready
    /\ pc[p] = "verified"
    /\ pc' = [pc EXCEPT ![p] = "queried"]
    /\ txn' = [txn EXCEPT ![p].loaded =
                  [sid \in ActiveSessions(txn[p].user_id) |-> sessions[sid]]]
    /\ UNCHANGED <<now, db, result, ops>>

\* lines 666-667: end_session() on every loaded row, in the request's memory
StartEndExisting(p) ==
    /\ Ready
    /\ pc[p] = "queried"
    /\ pc' = [pc EXCEPT ![p] = "ended"]
    /\ txn' = [txn EXCEPT ![p].loaded =
                  [sid \in DOMAIN txn[p].loaded |-> end_session(txn[p].loaded[sid])]]
    /\ UNCHANGED <<now, db, result, ops>>

\* lines 61-76: the new row; the commit writes it and the ended rows' columns
StartCommit(p) ==
    /\ Ready
    /\ pc[p] = "ended"
    /\ pc' = [pc EXCEPT ![p] = "idle"]
    /\ txn' = [txn EXCEPT ![p] = << >>]
    /\ IF txn[p].topic_id \notin TopicIds
       THEN /\ result' = Outcome("start", "db_error")
            /\ UNCHANGED <<db, ops>>
       ELSE /\ result' = Outcome("start", "ok")
            /\ ops' = ops + 1
            /\ sessions' = Append(
                  [sid \in DOMAIN sessions |->
                      IF sid \in DOMAIN txn[p].loaded
                      THEN [f \in DOMAIN sessions[sid] |->
                              IF f \in EndedColumns THEN txn[p].loaded[sid][f]
                              ELSE sessions[sid][f]]
                      ELSE sessions[sid]],
                  NewSession(txn[p].user_id, txn[p].pdf_id, txn[p].topic_id))
            /\ UNCHANGED <<page_times, pomodoros, reading_speeds, pdfs, topics, user_stats>>
    /\ UNCHANGED now

NextConc ==
    \/ Tick
    \/ \E p \in Procs, uid \in Users, pdf_id \in PdfInputs :
          \E topic_id \in OwnTopicInputs(uid) : StartVerifyPdf(p, uid, pdf_id, topic_id)
    \/ \E p \in Procs : StartQueryActive(p)
    \/ \E p \in Procs : StartEndExisting(p)
    \/ \E p \in Procs : StartCommit(p)

SpecConc == Init /\ [][NextConc]_vars

(***************************************************************************)
(* SpecConcCycle runs complete_pomodoro_cycle in two requests, statement by *)
(* statement, on a session that has two open cycles.  The database session *)
(* does not autoflush: every write of a request is pending until its       *)
(* commit, and the commit writes the values the request computed.          *)
(***************************************************************************)
InitCycles ==
    /\ now = 0
    /\ sessions = << NewSession(1, 1, 1) >>
    /\ page_times = << >>
    /\ pomodoros = << NewPomodoro(1, 1, "work", 1), NewPomodoro(1, 2, "work", 1) >>
    /\ reading_speeds = << >>
    /\ pdfs = [p \in PdfIds |-> [user_id |-> PdfOwner[p], actual_read_time |-> 0,
                                 view_count |-> 0, last_viewed_at |-> NoTime]]
    /\ topics = [t \in TopicIds |-> [user_id |-> TopicOwner[t], total_study_time |-> 0,
                                     last_studied_at |-> NoTime]]
    /\ user_stats = [u \in Users |-> NoStats]
    /\ result = Outcome("start_pomodoro", "ok")
    /\ ops = 0
    /\ pc = [p \in Procs |-> "idle"]
    /\ txn = [p \in Procs |-> << >>]

\* lines 391-405: the query of the open cycle, then complete_cycle() on the
\* loaded row, in the request's memory
CompleteQueryCycle(p, pomodoro_id, uid, interruptions) ==
    /\ Ready
    /\ pc[p] = "idle"
    /\ ops < MaxOps
    /\ IF ~(/\ pomodoro_id \in DOMAIN pomodoros
            /\ ~pomodoros[pomodoro_id].completed
            /\ sessions[pomodoros[pomodoro_id].study_session_id].user_id = uid)
       THEN /\ result' = Outcome("complete_pomodoro", "not_found")
            /\ UNCHANGED <<pc, txn>>
       ELSE /\ pc' = [pc EXCEPT ![p] = "completed"]
            /\ txn' = [txn EXCEPT ![p] =
                  [pomodoro_id |-> pomodoro_id,
                   cycle |-> complete_cycle([pomodoros[pomodoro_id] EXCEPT
                                                !.interruptions = interruptions]),
                   pomodoro_cycles |-> 0, xp_earned |-> 0]]
            /\ UNCHANGED result
    /\ UNCHANGED <<now, db, ops>>

\* lines 407-414: the query of the study session, then the two += on the
\* loaded row, in the request's memory
CompleteQuerySession(p) ==
    /\ Ready
    /\ pc[p] = "completed"
    /\ pc' = [pc EXCEPT ![p] = "counted"]
    /\ LET s == sessions[txn[p].cycle.study_session_id]
       IN  txn' = [txn EXCEPT ![p].pomodoro_cycles = s.pomodoro_cycles + 1,
                              ![p].xp_earned = s.xp_earned + txn[p].cycle.xp_earned]
    /\ UNCHANGED <<now, db, result, ops>>

\* lines 416-417: the commit writes the cycle and the session's two columns
CompleteCommit(p) ==
    /\ Ready
    /\ pc[p] = "counted"
    /\ pc' = [pc EXCEPT ![p] = "idle"]
    /\ txn' = [txn EXCEPT ![p] = << >>]
    /\ result' = Outcome("complete_pomodoro", "ok")
    /\ ops' = ops + 1
    /\ pomodoros' = [pomodoros EXCEPT ![txn[p].pomodoro_id] = txn[p].cycle]
    /\ sessions' = [sessions EXCEPT ![txn[p].cycle.study_session_id] =
                      [@ EXCEPT !.pomodoro_cycles = txn[p].pomodoro_cycles,
                                !.xp_earned = txn[p].xp_earned]]
    /\ UNCHANGED <<now, page_times, reading_speeds, pdfs, topics, user_stats>>

NextConcCycle ==
    \/ Tick
    \/ \E p \in Procs, pomodoro_id \in PomodoroIdInputs, uid \in Users :
          \E interruptions \in 0..MaxCount :
             CompleteQueryCycle(p, pomodoro_id, uid, interruptions)
    \/ \E p \in Procs : CompleteQuerySession(p)
    \/ \E p \in Procs : CompleteCommit(p)

SpecConcCycle == InitCycles /\ [][NextConcCycle]_vars

(***************************************************************************)
(* Properties.                                                             *)
(***************************************************************************)
SessionsOf(uid) == {sid \in DOMAIN sessions : sessions[sid].user_id = uid}
Running(s) == s.is_active /\ ~s.is_paused
Paused(s) == s.is_active /\ s.is_paused
Ended(s) == ~s.is_active
Owns(uid, sid) == sid \in DOMAIN sessions /\ sessions[sid].user_id = uid

\* C1: after any sequence of serialized Start, Pause, Resume, UpdateActivity and
\* End calls, every user has at most one session with is_active = true.
C1_AtMostOneActive ==
    \A uid \in Users :
        Cardinality({sid \in SessionsOf(uid) : sessions[sid].is_active}) <= 1

\* a user who started again while a session was active: the old one ended,
\* the new one active
C1_Witness ==
    \E uid \in Users :
        /\ result = Outcome("start", "ok")
        /\ \E old, new \in SessionsOf(uid) :
              /\ old < new
              /\ Ended(sessions[old]) /\ sessions[old].end_time = sessions[new].start_time
              /\ sessions[new].is_active

\* C2: when two Starts of one user run concurrently, their statements
\* interleaved in any order, the user never has two sessions with
\* is_active = true.
C2_OneActiveUnderConcurrentStart ==
    \A uid \in Users :
        \A a, b \in SessionsOf(uid) :
            sessions[a].is_active /\ sessions[b].is_active => a = b

\* C3: in every reachable state of every session, is_paused implies is_active,
\* and the end timestamp is set exactly when is_active is false.
C3_FlagsConsistent ==
    \A sid \in DOMAIN sessions :
        /\ sessions[sid].is_paused => sessions[sid].is_active
        /\ sessions[sid].end_time # NoTime <=> ~sessions[sid].is_active

\* a session that was ended while it was paused
C3_Witness ==
    \E sid \in DOMAIN sessions :
        /\ Ended(sessions[sid]) /\ sessions[sid].end_time # NoTime
        /\ sessions[sid].pause_count > sessions[sid].resume_times

\* C4: Pause is accepted only on a running session; on a paused or ended
\* session it fails with an invalid-state error and no field of any session
\* (nor any other row) changes.
C4_PauseOnlyWhenRunning ==
    [][\A sid \in DOMAIN sessions, uid \in Users :
          Owns(uid, sid) /\ PauseSession(sid, uid) =>
             IF Running(sessions[sid])
             THEN result'.status = "ok" /\ Paused(sessions'[sid])
             ELSE result'.status = "invalid_state" /\ db' = db]_vars

\* a Pause was rejected and every session is paused: it named a paused one
C4_Witness ==
    /\ result = Outcome("pause", "invalid_state")
    /\ sessions # << >>
    /\ \A sid \in DOMAIN sessions :
          Paused(sessions[sid]) /\ sessions[sid].pause_count = 1

\* C5: Resume is accepted only on a paused session, which it makes running;
\* on a running or ended session it fails with an invalid-state error and
\* changes nothing.
C5_ResumeOnlyWhenPaused ==
    [][\A sid \in DOMAIN sessions, uid \in Users :
          Owns(uid, sid) /\ ResumeSession(sid, uid) =>
             IF Paused(sessions[sid])
             THEN result'.status = "ok" /\ Running(sessions'[sid])
             ELSE result'.status = "invalid_state" /\ db' = db]_vars

\* a Resume was rejected and every session is running, one of them resumed before
C5_Witness ==
    /\ result = Outcome("resume", "invalid_state")
    /\ \A sid \in DOMAIN sessions : Running(sessions[sid])
    /\ \E sid \in DOMAIN sessions : sessions[sid].resume_times > 0

C7_MaximumWins ==
    [][/\ \A sid \in DOMAIN sessions, f \in ActivityFields :
             sessions'[sid][f] >= sessions[sid][f]
       /\ result' = Outcome("update", "ok") =>
             \A sid \in DOMAIN sessions, uid \in Users, activity \in ActivityUpdates :
                Owns(uid, sid) /\ UpdateSessionActivity(sid, uid, activity) =>
                   \A f \in ActivityFields :
                      /\ sessions'[sid][f] =
                            IF f \in DOMAIN activity
                            THEN (IF sessions[sid][f] >= activity[f]
                                  THEN sessions[sid][f] ELSE activity[f])
                            ELSE sessions[sid][f]
                      /\ \* the same call again would store the same counters
                         sessions'[sid][f] =
                            IF f \in DOMAIN activity
                            THEN (IF sessions'[sid][f] >= activity[f]
                                  THEN sessions'[sid][f] ELSE activity[f])
                            ELSE sessions'[sid][f]]_vars

\* an update was accepted on a session that holds two raised counters
C7_Witness ==
    /\ result = Outcome("update", "ok")
    /\ \E sid \in DOMAIN sessions :
          /\ sessions[sid].is_active
          /\ sessions[sid].pages_visited > 0
          /\ sessions[sid].interruptions > 0

\* C8: UpdateActivity on an ended session fails with an invalid-state error
\* and leaves its counters and timing (and every row) unchanged; on an active
\* session, paused or not, it is accepted.
C8_UpdateOnlyWhenActive ==
    [][result'.op = "update" =>
          \A sid \in DOMAIN sessions, uid \in Users, activity \in FullActivityUpdates :
             Owns(uid, sid) /\ UpdateSessionActivity(sid, uid, activity) =>
                IF sessions[sid].is_active
                THEN result'.status = "ok" /\ sessions'[sid].is_active
                ELSE result'.status = "invalid_state" /\ db' = db]_vars

\* an update was rejected and every session has ended with raised counters
C8_Witness ==
    /\ result = Outcome("update", "invalid_state")
    /\ sessions # << >>
    /\ \A sid \in DOMAIN sessions :
          Ended(sessions[sid]) /\ sessions[sid].clicks_count > 0

\* C9: Pause, Resume, UpdateActivity, End, OpenPageTimer and StartPomodoroCycle
\* called with a session id that is unknown or owned by another user fail with
\* a not-found error and change no stored row.
C9_NotFoundChangesNothing ==
    [][\A sid \in SessionIdInputs, uid \in Users :
          /\ ~Owns(uid, sid)
          /\ \/ PauseSession(sid, uid)
             \/ ResumeSession(sid, uid)
             \/ EndSession(sid, uid)
             \/ \E activity \in FullActivityUpdates :
                   UpdateSessionActivity(sid, uid, activity)
             \/ \E pdf_id \in PdfInputs : StartPageTimer(uid, sid, pdf_id, 1, 250)
             \/ StartPomodoroCycle(uid, sid, 1, "work", 1)
          => result'.status = "not_found" /\ db' = db]_vars

\* a pomodoro start was rejected as not found although both users have sessions
C9_Witness ==
    /\ result = Outcome("start_pomodoro", "not_found")
    /\ \A uid \in Users : \E sid \in SessionsOf(uid) : sessions[sid].is_active

\* C10: once a session has ended, no later operation changes any of its
\* fields, pomodoro_cycles and xp_earned included.
C10_EndedImmutable ==
    [][\A sid \in DOMAIN sessions :
          Ended(sessions[sid]) => sessions'[sid] = sessions[sid]]_vars

\* the columns of a session that count minutes or events
SessionCounters == ActivityFields \cup {"total_minutes", "active_minutes", "idle_minutes",
                                        "pomodoro_cycles", "pause_count", "resume_times",
                                        "focus_score", "productivity_score", "xp_earned"}

\* C11: a successful Start of a user who has an active session (running or
\* paused) ends that session (is_active and is_paused false, end timestamp set,
\* focus, productivity and XP computed from the data it has accumulated) and
\* adds a new session that is active, not paused, has no end timestamp and has
\* all counters and minutes at zero.
C11_StartEndsActiveSession ==
    [][result' = Outcome("start", "ok") =>
          \A uid \in Users, pdf_id \in PdfInputs, topic_id \in TopicInputs :
             StartSession(uid, pdf_id, topic_id) =>
                /\ Len(sessions') = Len(sessions) + 1
                /\ LET new == sessions'[Len(sessions')]
                   IN  /\ new.user_id = uid /\ new.pdf_id = pdf_id
                       /\ new.is_active /\ ~new.is_paused /\ new.end_time = NoTime
                       /\ \A f \in SessionCounters : new[f] = 0
                /\ \A sid \in DOMAIN sessions :
                      IF sessions[sid].user_id = uid /\ sessions[sid].is_active
                      THEN LET e == sessions'[sid]
                           IN  /\ ~e.is_active /\ ~e.is_paused /\ e.end_time = now
                               /\ e.total_minutes = (now - e.start_time) \div 60
                               /\ \A f \in ActivityFields \cup {"active_minutes", "idle_minutes",
                                                              "pomodoro_cycles"} :
                                     e[f] = sessions[sid][f]
                               /\ e.focus_score = calculate_focus_score(e)
                               /\ e.productivity_score = calculate_productivity_score(e)
                               /\ e.xp_earned = calculate_xp_earned(e)
                      ELSE sessions'[sid] = sessions[sid]]_vars

\* a Start has ended a session that was paused, and the new session is active
C11_Witness ==
    /\ result = Outcome("start", "ok")
    /\ \E old, new \in DOMAIN sessions :
          /\ sessions[old].user_id = sessions[new].user_id
          /\ ~sessions[old].is_active /\ ~sessions[old].is_paused
          /\ sessions[old].pause_count > sessions[old].resume_times
          /\ sessions[old].end_time = sessions[new].start_time
          /\ sessions[old].total_minutes > 0
          /\ sessions[new].is_active /\ new = Len(sessions)

\* C12: a Start whose document cannot be resolved for the user fails with
\* not-found, creates no session and leaves every row, the user's active
\* session included, as it was.
C12_FailedStartChangesNothing ==
    [][result'.op = "start" =>
          \A uid \in Users, pdf_id \in PdfInputs, topic_id \in TopicInputs :
             /\ ~(pdf_id \in PdfIds /\ pdfs[pdf_id].user_id = uid)
             /\ StartSession(uid, pdf_id, topic_id)
             => result' = Outcome("start", "not_found") /\ db' = db]_vars

\* a Start was rejected as not found while both users have an active session
C12_Witness ==
    /\ result = Outcome("start", "not_found")
    /\ \A uid \in Users :
          \E sid \in DOMAIN sessions :
             sessions[sid].user_id = uid /\ sessions[sid].is_active

\* C13: in every reachable state a session that has ended owns no open page
\* timer: End closes the session's open page timer.
C13_EndedSessionHasNoOpenPageTimer ==
    \A pid \in DOMAIN page_times :
       ~sessions[page_times[pid].session_id].is_active
          => page_times[pid].end_time # NoTime

\* C14: after any sequence of serialized OpenPageTimer and ClosePageTimer
\* calls each session has at most one open page timer: OpenPageTimer closes
\* the session's open timer, setting its end timestamp and duration, and then
\* adds the new open one.
C14_AtMostOneOpenPageTimer ==
    [][/\ \A sid \in DOMAIN sessions' :
             Cardinality({pid \in DOMAIN page_times' :
                             /\ page_times'[pid].session_id = sid
                             /\ page_times'[pid].end_time = NoTime}) <= 1
       /\ result' = Outcome("start_page", "ok") =>
             \A sid \in DOMAIN sessions, uid \in Users, pdf_id \in PdfInputs :
                StartPageTimer(uid, sid, pdf_id, 1, 250) =>
                   /\ Len(page_times') = Len(page_times) + 1
                   /\ LET new == page_times'[Len(page_times')]
                      IN  /\ new.session_id = sid /\ new.start_time = now
                          /\ new.end_time = NoTime
                   /\ \A pid \in DOMAIN page_times :
                         IF /\ page_times[pid].session_id = sid
                            /\ page_times[pid].end_time = NoTime
                         THEN /\ page_times'[pid].end_time = now
                              /\ page_times'[pid].duration_seconds =
                                    now - page_times[pid].start_time
                         ELSE page_times'[pid] = page_times[pid]]_vars

\* a page timer was opened while another of the session was open: the earlier
\* one is closed at the time the later one starts
C14_Witness ==
    /\ result = Outcome("start_page", "ok")
    /\ \E old, new \in DOMAIN page_times :
          /\ old < new
          /\ page_times[old].session_id = page_times[new].session_id
          /\ page_times[old].end_time = page_times[new].start_time
          /\ page_times[old].duration_seconds > 0
          /\ page_times[new].end_time = NoTime

\* C15: a closed page timer is immutable: once its end timestamp is set no
\* later operation changes any of its counters, its duration or its derived
\* values.
C15_ClosedPageTimerImmutable ==
    [][\A pid \in DOMAIN page_times :
          page_times[pid].end_time # NoTime => page_times'[pid] = page_times[pid]]_vars

\* C16: ClosePageTimer on an id that is unknown, not owned by the caller or
\* already closed fails with not-found and changes no row, so a second close
\* of a timer does not move its end timestamp.
C16_CloseOnlyOpenPageTimer ==
    [][result'.op = "end_page" =>
          \A pid \in PageTimeIdInputs, uid \in Users :
             /\ \/ pid \notin DOMAIN page_times
                \/ sessions[page_times[pid].session_id].user_id # uid
                \/ page_times[pid].end_time # NoTime
             /\ EndPageTimer(pid, uid)
             => result' = Outcome("end_page", "not_found") /\ db' = db]_vars

\* a close was rejected when every page timer had been closed earlier, by one
\* user's sessions alone
C16_Witness ==
    /\ result = Outcome("end_page", "not_found")
    /\ page_times # << >>
    /\ \A pid \in DOMAIN page_times :
          /\ page_times[pid].end_time # NoTime
          /\ page_times[pid].end_time < now
    /\ \A sid \in DOMAIN sessions : sessions[sid].user_id = 1

C19_CompleteCountsOnce ==
    [][/\ \A sid \in DOMAIN sessions' :
             sessions'[sid].pomodoro_cycles =
                Cardinality({cid \in DOMAIN pomodoros' :
                                /\ pomodoros'[cid].study_session_id = sid
                                /\ pomodoros'[cid].completed})
       /\ result'.op = "complete_pomodoro" =>
             \A cid \in PomodoroIdInputs, uid \in Users :
                CompletePomodoroCycle(cid, uid, 0) =>
                   IF /\ cid \in DOMAIN pomodoros
                      /\ sessions[pomodoros[cid].study_session_id].user_id = uid
                      /\ ~pomodoros[cid].completed
                   THEN LET sid == pomodoros[cid].study_session_id
                        IN  /\ result'.status = "ok"
                            /\ pomodoros'[cid].completed
                            /\ pomodoros'[cid].completed_at = now
                            /\ sessions'[sid].pomodoro_cycles =
                                  sessions[sid].pomodoro_cycles + 1
                            /\ sessions'[sid].xp_earned =
                                  sessions[sid].xp_earned + pomodoros'[cid].xp_earned
                            /\ \A other \in DOMAIN sessions \ {sid} :
                                  sessions'[other] = sessions[other]
                   ELSE result'.status = "not_found" /\ db' = db]_vars

\* a Complete was rejected when the only cycle had been completed and counted
C19_Witness ==
    /\ result = Outcome("complete_pomodoro", "not_found")
    /\ Len(pomodoros) = 1 /\ pomodoros[1].completed /\ pomodoros[1].xp_earned > 0
    /\ sessions[pomodoros[1].study_session_id].pomodoro_cycles = 1
    /\ sessions[pomodoros[1].study_session_id].xp_earned >= pomodoros[1].xp_earned

\* C20: for every ended session, focus_score is in [0, 1], productivity_score
\* is in [0, 1] (hundredths: 0..100) and xp_earned >= 0.
C20_ScoresInRange ==
    \A sid \in DOMAIN sessions :
       ~sessions[sid].is_active =>
          /\ sessions[sid].focus_score \in 0..100
          /\ sessions[sid].productivity_score \in 0..100
          /\ sessions[sid].xp_earned >= 0

\* an ended session whose interruption penalty and productivity ratios are all
\* at their caps
C20_Witness ==
    \E sid \in DOMAIN sessions :
       /\ ~sessions[sid].is_active /\ sessions[sid].total_minutes > 0
       /\ sessions[sid].interruptions > 5 /\ sessions[sid].pages_completed > 1
       /\ sessions[sid].clicks_count > 5 * sessions[sid].total_minutes
       /\ sessions[sid].productivity_score = 100
       /\ sessions[sid].focus_score = 50

\* C21: in every reachable state of a session, active_minutes <= total_minutes
\* <= the minutes elapsed since its start; a step never lowers active_minutes
\* and raises it by at most 1, whatever time has passed and however many
\* updates are made within one minute.
C21_ActiveMinutesBounded ==
    [][\A sid \in DOMAIN sessions :
          /\ sessions'[sid].active_minutes <= sessions'[sid].total_minutes
          /\ sessions'[sid].total_minutes
                <= Minutes(sessions'[sid].start_time, now')
          /\ sessions'[sid].active_minutes >= sessions[sid].active_minutes
          /\ sessions'[sid].active_minutes <= sessions[sid].active_minutes + 1]_vars

\* an update of a running session made three minutes after its start: one
\* active minute
C21_Witness ==
    /\ result = Outcome("update", "ok")
    /\ \E sid \in DOMAIN sessions :
          /\ Running(sessions[sid])
          /\ sessions[sid].total_minutes >= 3
          /\ sessions[sid].active_minutes = 1

\* the sessions, page timers and Pomodoro cycles that user uid owns in tables
\* S, P and C
RowsOf(S, P, C, uid) ==
    << [sid \in {i \in DOMAIN S : S[i].user_id = uid} |-> S[sid]],
       [pid \in {i \in DOMAIN P : S[P[i].session_id].user_id = uid} |-> P[pid]],
       [cid \in {i \in DOMAIN C : S[C[i].study_session_id].user_id = uid} |-> C[cid]] >>

\* the step is a call made with user uid's id
CallBy(uid) ==
    \/ \E pdf_id \in PdfInputs, topic_id \in OwnTopicInputs(uid) :
          StartSession(uid, pdf_id, topic_id)
    \/ \E sid \in SessionIdInputs :
          \/ PauseSession(sid, uid)
          \/ ResumeSession(sid, uid)
          \/ EndSession(sid, uid)
          \/ \E activity \in FullActivityUpdates : UpdateSessionActivity(sid, uid, activity)
          \/ \E pdf_id \in PagePdfInputs(sid) : StartPageTimer(uid, sid, pdf_id, 1, 250)
          \/ StartPomodoroCycle(uid, sid, 1, "work", 1)
    \/ \E pid \in PageTimeIdInputs : EndPageTimer(pid, uid)
    \/ \E cid \in PomodoroIdInputs : CompletePomodoroCycle(cid, uid, 0)

\* C22: sessions of different users are independent: a call made with user
\* A's id leaves every session, page timer and Pomodoro cycle of any other
\* user B unchanged; a Start by A never ends B's active session.
C22_UsersIndependent ==
    [][\A b \in Users :
          RowsOf(sessions', page_times', pomodoros', b)
             # RowsOf(sessions, page_times, pomodoros, b)
          => \A a \in Users \ {b} : ~CallBy(a)]_vars

\* both users have an active session, the later one just started
C22_Witness ==
    /\ result = Outcome("start", "ok")
    /\ \E a, b \in DOMAIN sessions :
          /\ a < b /\ b = Len(sessions)
          /\ sessions[a].user_id # sessions[b].user_id
          /\ sessions[a].is_active /\ sessions[b].is_active
          /\ sessions[a].start_time < sessions[b].start_time

\* the XP of the completed cycles among cycles 1..n of session sid
RECURSIVE CompletedXp(_, _)
CompletedXp(sid, n) ==
    IF n = 0 THEN 0
    ELSE CompletedXp(sid, n - 1)
           + (IF pomodoros[n].study_session_id = sid /\ pomodoros[n].completed
              THEN pomodoros[n].xp_earned ELSE 0)

\* C23: concurrent calls on one session are never interleaved: once the
\* concurrent CompletePomodoroCycle requests of a session have committed, the
\* session is as some serial order of them leaves it, its pomodoro_cycles the
\* number of its completed cycles and its xp_earned the sum of their XP.
C23_ConcurrentCompleteSerializable ==
    (\A p \in Procs : pc[p] = "idle") =>
       \A sid \in DOMAIN sessions :
          /\ sessions[sid].pomodoro_cycles =
                Cardinality({cid \in DOMAIN pomodoros :
                                /\ pomodoros[cid].study_session_id = sid
                                /\ pomodoros[cid].completed})
          /\ sessions[sid].xp_earned = CompletedXp(sid, Len(pomodoros))

\* the session the latest Start of user uid created, if it has not ended
LatestRunning(uid) ==
    LET mine == SessionsOf(uid)
        latest == CHOOSE m \in mine : \A x \in mine : x <= m
    IN  IF mine # {} /\ sessions[latest].is_active THEN latest ELSE Absent

\* C24: GetActiveSession(user) returns the session created by the user's most
\* recent successful Start exactly while that session has not ended, and
\* returns absent before any Start and after that session's End.
C24_ActiveSessionIsLatestStart ==
    [][\A uid \in Users :
          result'.op = "get_active" /\ GetActiveSession(uid)
          => result'.session = LatestRunning(uid)]_vars

\* the query answered with the second session of a user whose first has ended
C24_Witness ==
    /\ result.op = "get_active"
    /\ result.session # Absent
    /\ \E old \in DOMAIN sessions :
          /\ old < result.session
          /\ sessions[old].user_id = sessions[result.session].user_id
          /\ Ended(sessions[old])

\* the sessions user uid has had on document pdf_id
SessionsOn(uid, pdf_id) ==
    {sid \in SessionsOf(uid) : sessions[sid].pdf_id = pdf_id}

\* user uid has a sample of the content type and difficulty the estimate of
\* document pdf_id reads
HasMatchingSample(uid, pdf_id) ==
    \E i \in DOMAIN reading_speeds :
       /\ reading_speeds[i].user_id = uid
       /\ reading_speeds[i].content_type = "text"
       /\ reading_speeds[i].difficulty_level = PdfDifficulty[pdf_id]

C25_UndisturbedFocusIsOne ==
    \A sid \in DOMAIN sessions :
       /\ Ended(sessions[sid])
       /\ sessions[sid].interruptions = 0
       /\ sessions[sid].idle_minutes = 0
       /\ sessions[sid].total_minutes > 0
       => sessions[sid].focus_score = 100

\* a session of several minutes ended without interruptions or idle minutes,
\* most of its minutes not counted as active
C25_Witness ==
    \E sid \in DOMAIN sessions :
       /\ Ended(sessions[sid])
       /\ sessions[sid].interruptions = 0
       /\ sessions[sid].idle_minutes = 0
       /\ sessions[sid].total_minutes >= 3
       /\ sessions[sid].active_minutes <= 1
       /\ sessions[sid].focus_score = 100

\* 0.7 * min(1, pages_completed / max(1, total_minutes / 10))
\*   + 0.3 * min(1, (clicks + scrolls) / max(1, total_minutes * 5)),
\* as the exact fraction <<numerator, denominator>>
ProductivityFormula(s) ==
    LET pages == IF 10 * s.pages_completed >= Max(10, s.total_minutes)
                 THEN <<1, 1>>
                 ELSE <<10 * s.pages_completed, Max(10, s.total_minutes)>>
        activity == IF s.clicks_count + s.scroll_events >= Max(1, 5 * s.total_minutes)
                    THEN <<1, 1>>
                    ELSE <<s.clicks_count + s.scroll_events, Max(1, 5 * s.total_minutes)>>
    IN  <<7 * pages[1] * activity[2] + 3 * activity[1] * pages[2],
          10 * pages[2] * activity[2]>>

\* C26 as stated: the productivity score equals 0.7 * min(1, pages_completed /
\* max(1, total_minutes / 10)) + 0.3 * min(1, (clicks + scrolls) /
\* max(1, total_minutes * 5)) for all inputs.
C26_ProductivityEqualsFormula ==
    \A sid \in DOMAIN sessions :
       Ended(sessions[sid]) =>
          LET f == ProductivityFormula(sessions[sid])
          IN  sessions[sid].productivity_score * f[2] = 100 * f[1]

\* C26 amended: the productivity score is 0 when total_minutes = 0, and
\* otherwise the formula's value rounded to two decimals; total_minutes = 100,
\* pages_completed = 5, clicks = 200, scroll = 100 gives 0.53.
C26_ProductivityIsRoundedFormula ==
    \A sid \in DOMAIN sessions :
       Ended(sessions[sid]) =>
          LET s == sessions[sid]
              f == ProductivityFormula(s)
              d == s.productivity_score * f[2] - 100 * f[1]
          IN  /\ s.total_minutes = 0 => s.productivity_score = 0
              /\ s.total_minutes > 0 => 2 * d <= f[2] /\ -2 * d <= f[2]
              /\ (/\ s.total_minutes = 100 /\ s.pages_completed = 5
                  /\ s.clicks_count = 200 /\ s.scroll_events = 100)
                 => s.productivity_score = 53

\* the session of scenario B, ended
C26_Witness ==
    \E sid \in DOMAIN sessions :
       /\ Ended(sessions[sid])
       /\ sessions[sid].total_minutes = 100 /\ sessions[sid].pages_completed = 5
       /\ sessions[sid].clicks_count = 200 /\ sessions[sid].scroll_events = 100
       /\ sessions[sid].productivity_score = 53

\* C27: for every Pomodoro cycle whose type is short_break or long_break, the
\* cycle focus score is 1.0, for every interruption count, completed flag and
\* duration: the score computed for the cycle as it is stored, and the score
\* stored when it was completed.
C27_BreakFocusIsOne ==
    \A cid \in DOMAIN pomodoros :
       pomodoros[cid].cycle_type \in {"short_break", "long_break"}
       => /\ cycle_focus_score(pomodoros[cid]) = 100
          /\ pomodoros[cid].completed => pomodoros[cid].focus_score = 100

\* an open short break, and a long break completed with interruptions before
\* its planned duration
C27_Witness ==
    /\ \E cid \in DOMAIN pomodoros :
          /\ pomodoros[cid].cycle_type = "short_break"
          /\ ~pomodoros[cid].completed
    /\ \E cid \in DOMAIN pomodoros :
          /\ pomodoros[cid].cycle_type = "long_break"
          /\ pomodoros[cid].completed
          /\ pomodoros[cid].interruptions > 1
          /\ pomodoros[cid].actual_duration_minutes
                < pomodoros[cid].planned_duration_minutes
          /\ pomodoros[cid].focus_score = 100

\* C29: closing a PageTimer opened with any estimated word count while its
\* active_time_seconds is 0 leaves reading_speed_wpm unset, for every page
\* number and word count.
C29_NoSpeedWithoutActiveTime ==
    \A pid \in DOMAIN page_times :
       /\ page_times[pid].end_time # NoTime
       /\ page_times[pid].active_time_seconds = 0
       => page_times[pid].reading_speed_wpm = NoValue

\* a page of 250 words closed by ClosePageTimer after time has passed
C29_Witness ==
    /\ result = Outcome("end_page", "ok")
    /\ \E pid \in DOMAIN page_times :
          /\ page_times[pid].end_time # NoTime
          /\ page_times[pid].estimated_words = 250
          /\ page_times[pid].page_number = 2
          /\ page_times[pid].duration_seconds > 0
          /\ page_times[pid].active_time_seconds = 0
          /\ page_times[pid].reading_speed_wpm = NoValue

\* C30: Pause on a running session applies the timing update for the running
\* state (total_minutes = elapsed, active_minutes = min(elapsed, previous
\* active_minutes + 1)), then adds exactly 1 to pause_count, then makes the
\* session paused.
C30_PauseUpdatesTimingAsRunning ==
    [][\A sid \in DOMAIN sessions, uid \in Users :
          /\ result' = Outcome("pause", "ok")
          /\ Running(sessions[sid])
          /\ PauseSession(sid, uid)
          => LET elapsed == Minutes(sessions[sid].start_time, now)
             IN  /\ sessions'[sid].total_minutes = elapsed
                 /\ sessions'[sid].active_minutes
                       = Min(elapsed, sessions[sid].active_minutes + 1)
                 /\ sessions'[sid].pause_count = sessions[sid].pause_count + 1
                 /\ Paused(sessions'[sid])]_vars

\* C31: End applies the timing update before scoring: after End,
\* total_minutes is the minutes elapsed since the start, and a session that
\* was paused when ended has idle_minutes = total_minutes - active_minutes.
C31_EndAppliesTimingUpdate ==
    [][\A sid \in DOMAIN sessions, uid \in Users :
          /\ result' = Outcome("end", "ok")
          /\ sessions[sid].is_active
          /\ EndSession(sid, uid)
          => /\ sessions'[sid].total_minutes = Minutes(sessions[sid].start_time, now)
             /\ Paused(sessions[sid])
                   => sessions'[sid].idle_minutes
                         = sessions'[sid].total_minutes - sessions'[sid].active_minutes]_vars

\* max(0, 1.0 - min(0.5, 0.1 * interruptions) - P) in hundredths, as the exact
\* fraction <<numerator, denominator>>; P = min(0.3, 1.5 * (idle / total - 0.2))
\* if total_minutes > 0 and idle / total > 0.2, and P = 0 otherwise
FocusFormula(s) ==
    LET d == Max(1, s.total_minutes)
        P == IF s.total_minutes > 0 /\ 5 * s.idle_minutes > s.total_minutes
             THEN Min(30 * d, 150 * s.idle_minutes - 30 * d)
             ELSE 0
    IN  <<Max(0, (100 - Min(50, 10 * s.interruptions)) * d - P), d>>

\* the score is the fraction f of hundredths, rounded to a whole hundredth
IsRounded(score, f) ==
    /\ 2 * (score * f[2] - f[1]) <= f[2]
    /\ 2 * (f[1] - score * f[2]) <= f[2]

\* C32 as stated: for all values of interruptions, idle_minutes and
\* total_minutes, total_minutes = 0 included, the focus score set at End is
\* max(0, 1.0 - min(0.5, 0.1 * interruptions) - P) rounded to 2 decimals.
C32_FocusIsFormula ==
    \A sid \in DOMAIN sessions :
       Ended(sessions[sid])
       => IsRounded(sessions[sid].focus_score, FocusFormula(sessions[sid]))

\* C32 amended: the focus score set at End is 0 when total_minutes = 0, and
\* for total_minutes > 0 it is max(0, 1.0 - min(0.5, 0.1 * interruptions) - P)
\* rounded to 2 decimals.
C32_FocusIsFormulaAfterFirstMinute ==
    \A sid \in DOMAIN sessions :
       Ended(sessions[sid])
       => IF sessions[sid].total_minutes = 0
          THEN sessions[sid].focus_score = 0
          ELSE IsRounded(sessions[sid].focus_score, FocusFormula(sessions[sid]))

\* an ended session with both penalties, the idle penalty below its cap
C32_Witness ==
    \E sid \in DOMAIN sessions :
       /\ Ended(sessions[sid])
       /\ sessions[sid].interruptions = 2
       /\ sessions[sid].total_minutes = 10 /\ sessions[sid].idle_minutes = 3
       /\ sessions[sid].focus_score = 65

\* C33: after End, xp_earned = 2 * active_minutes + floor(50 * focus_score)
\* + floor(50 * productivity_score) + 10 * pages_completed + 25 * pomodoro_cycles,
\* computed from the values the session holds at End.
C33_XpIsFormula ==
    \A sid \in DOMAIN sessions :
       Ended(sessions[sid])
       => sessions[sid].xp_earned
             = 2 * sessions[sid].active_minutes
               + (50 * sessions[sid].focus_score) \div 100
               + (50 * sessions[sid].productivity_score) \div 100
               + 10 * sessions[sid].pages_completed
               + 25 * sessions[sid].pomodoro_cycles

\* C34: a session's xp_earned never decreases: the XP that completed Pomodoro
\* cycles added to the session is still in its total after End.
C34_XpNeverDecreases ==
    [][\A sid \in DOMAIN sessions :
          sessions'[sid].xp_earned >= sessions[sid].xp_earned]_vars

\* the sum of active_minutes over the first n sessions that are ended and on
\* document pdf_id
RECURSIVE EndedActiveMinutes(_, _)
EndedActiveMinutes(pdf_id, n) ==
    IF n = 0 THEN 0
    ELSE EndedActiveMinutes(pdf_id, n - 1)
           + (IF sessions[n].pdf_id = pdf_id /\ Ended(sessions[n])
              THEN sessions[n].active_minutes ELSE 0)

\* C35: a session force-ended by a Start gets the effects of an explicit End,
\* its active_minutes are added to its document's read time among them: in
\* every reachable state each document's cumulative read time is the sum of
\* active_minutes over its ended sessions.
C35_ReadTimeIsSumOfEndedSessions ==
    \A pdf_id \in PdfIds :
       pdfs[pdf_id].actual_read_time = EndedActiveMinutes(pdf_id, Len(sessions))

\* C36: in every reachable state of a session active_minutes + idle_minutes
\* <= total_minutes: idle time recorded by a Pause is never also counted as
\* active time by the UpdateActivity calls made after Resume.
C36_ActivePlusIdleWithinTotal ==
    \A sid \in DOMAIN sessions :
       sessions[sid].active_minutes + sessions[sid].idle_minutes
          <= sessions[sid].total_minutes

\* C37: Start fails, creating no session and ending none, when the topic id
\* cannot be resolved for the user, as it does for an unresolvable document id.
C37_StartFailsOnUnresolvableTopic ==
    [][\A uid \in Users, pdf_id \in PdfInputs, topic_id \in TopicInputs :
          /\ result'.op = "start"
          /\ ~(topic_id \in TopicIds /\ topics[topic_id].user_id = uid)
          /\ StartSession(uid, pdf_id, topic_id)
          => /\ result'.status # "ok"
             /\ sessions' = sessions]_vars

\* C38: a successful Resume changes only is_paused, to false, and the audit
\* record of resume timestamps: the minutes, pause_count, the activity
\* counters, the scores and the XP of the session, the other sessions and the
\* other tables are as before; and while a session stays paused no call
\* increases its active_minutes.
C38_ResumeChangesOnlyPausedFlag ==
    [][\A sid \in DOMAIN sessions :
          /\ (result' = Outcome("resume", "ok") /\ sessions'[sid] # sessions[sid])
                => /\ Paused(sessions[sid])
                   /\ sessions' = [sessions EXCEPT ![sid] =
                         [@ EXCEPT !.is_paused = FALSE,
                                   !.resume_times = sessions'[sid].resume_times]]
                   /\ sessions'[sid].resume_times = sessions[sid].resume_times + 1
                   /\ UNCHANGED <<page_times, pomodoros, reading_speeds,
                                  pdfs, topics, user_stats>>
          /\ (Paused(sessions[sid]) /\ Paused(sessions'[sid]))
                => sessions'[sid].active_minutes = sessions[sid].active_minutes]_vars

\* a session resumed minutes after its timing was last updated: its minutes
\* are still those of the last update
C38_Witness ==
    \E sid \in DOMAIN sessions :
       /\ result = Outcome("resume", "ok")
       /\ Running(sessions[sid])
       /\ sessions[sid].resume_times = 1
       /\ sessions[sid].idle_minutes > 0
       /\ sessions[sid].total_minutes < Minutes(sessions[sid].start_time, now)

\* C39: a ReadingSpeedSample emitted when a session ends feeds the later
\* completion estimates: for a document whose difficulty is the sample's
\* difficulty level the estimate's average speed is the mean of the user's
\* samples of that difficulty, not the 0.5 default.
C39_EndSampleFeedsEstimate ==
    (result.op = "estimate" /\ result.status = "ok")
    => LET uid == pdfs[result.pdf_id].user_id
           difficulty == PdfDifficulty[result.pdf_id]
       IN  (\E i \in DOMAIN reading_speeds :
               /\ reading_speeds[i].user_id = uid
               /\ reading_speeds[i].session_id \in DOMAIN sessions
               /\ reading_speeds[i].difficulty_level = difficulty)
           => result.avg_reading_speed = avg_reading_speed_any_content(uid, difficulty)

====
